---------------------------- MODULE Spec2Model ----------------------------
(***************************************************************************)
(* Manifest rendering and scaling engine of the Devanning application:     *)
(*   - the Page-Scale Calculator   (lib/manifest-scaling, computeScaleForA4)*)
(*   - the Batch Paginator         (components/batch-print.tsx)            *)
(*   - the Optimal-Fit Solver      (lib/text-measurement.ts)               *)
(*   - the Field Overlay Renderer  (components/presentational-manifest.tsx *)
(*                                  and manifest-field-renderer.tsx)       *)
(* Each subsystem has its own specification (SpecScale, SpecBatch,         *)
(* SpecFit, SpecField); the variables of the other subsystems stay at      *)
(* their idle values.                                                      *)
(*                                                                         *)
(* JavaScript numbers are modelled exactly: scale factors are rationals    *)
(* [n, d] in lowest terms, page counts are integers or the value NaN, and  *)
(* font sizes are fixed-point integers in units of 2^-20 px (the bisection *)
(* of [1, 1000] in 20 halvings never leaves that grid).                    *)
(***************************************************************************)
EXTENDS Integers, Sequences, FiniteSets, TLC

VARIABLES
    \* ---- Page-Scale Calculator (one call of computeScaleForA4) ----
    baseWidthPx,        \* options.baseWidthPx
    baseHeightPx,       \* options.baseHeightPx
    targetMode,         \* options.targetMode
    maxScreenWidth,     \* options.maxScreenWidth, or None
    maxScreenHeight,    \* options.maxScreenHeight, or None
    scaleResult,        \* the returned ScaleResult, or None before the call
    htmlScale,          \* generateManifestHTML's scaleX, scaleY for the canvas
    \* ---- Batch Paginator (one mount of <BatchPrint results=... />) ----
    results,            \* props.results: sequence of manifest data records
    blGroups,           \* const blGroups = groupByBl()
    totalBls,           \* const totalBls
    totalManifests,     \* const totalManifests
    totalPages,         \* const totalPages
    screenPages,        \* the .batch-print-page elements of the rendered view
    htmlPages,          \* the .batch-print-page elements of the downloaded HTML
    batchPc,            \* "mounted" -> "rendered" -> "downloaded"
    serverJob,          \* pdf-service createJob: the job made for the batch
    serverDocument,     \* pdf-service generateHTML: its groups and totals
    \* ---- Optimal-Fit Solver (calls of calculateOptimalFontSize) ----
    fitArgs,            \* arguments of the current call
    measurementCache,   \* module-level cache of measureTextWidth
    fitResult,          \* the returned {fontSize, scaleX, scaleY}, or None
    fitCalls,           \* number of calls made so far
    fitSearch,          \* the search the current call ran (its optimalSize and
                        \* its number of measureTextWidth calls), or None
    \* ---- Field Overlay Renderer (one field of a template) ----
    field,              \* the TemplateField rendered
    manifestData,       \* the data record (ManifestData) it is rendered with
    fieldValue,         \* the data value shown in it
    sizing,             \* ManifestFieldRenderer: the sizing state
    textStyle,          \* ManifestFieldRenderer: textStyle of the last render
    overflowStyle,      \* PresentationalManifest: overflowStyle of the field
    presentational,     \* PresentationalManifest: textContent and sizing
    htmlField,          \* generateManifestHTML: the field's text and styles
    fieldPc,            \* ManifestFieldRenderer: "idle" -> "mounted" -> "sized"
    \* ---- A template handed to the scaling helpers ----
    structure,          \* the TemplateStructure (imageWidth, imageHeight)
    templateOptions,    \* targetMode and screen limits of the call site
    baseDimensions,     \* computeBaseDimensions(structure), or None
    templateScale,      \* outcome of computeScaleForA4 on them, or None
    \* ---- PDF service (pdf-service.ts and its routes) ----
    jobs,               \* the jobs Map: job id -> BatchPrintJob
    generation,         \* per job id, the position of generatePDF(id)
    expiry,             \* per job id, the position of its cleanup timer
    pdfDir,             \* job ids whose PDF file exists in ./pdfs
    response,           \* the last HTTP response of the job routes
    \* ---- Template editor (TemplateEditor component state) ----
    editor,
    \* ---- Manifest preview, edit mode (CustomManifestPreview state) ----
    preview

scaleVars == <<baseWidthPx, baseHeightPx, targetMode, maxScreenWidth,
               maxScreenHeight, scaleResult, htmlScale>>
batchVars == <<results, blGroups, totalBls, totalManifests, totalPages,
               screenPages, htmlPages, batchPc, serverJob, serverDocument>>
fitVars   == <<fitArgs, measurementCache, fitResult, fitCalls,
               fitSearch>>
fieldVars == <<field, manifestData, fieldValue, sizing, textStyle,
               overflowStyle, presentational, htmlField, fieldPc>>
templateVars == <<structure, templateOptions, baseDimensions, templateScale>>
jobVars   == <<jobs, generation, expiry, pdfDir, response>>
editorVars == <<editor>>
previewVars == <<preview>>
vars      == <<scaleVars, batchVars, fitVars, fieldVars, templateVars,
               jobVars, editorVars, previewVars>>

\* Optional values: None is JavaScript's undefined (an omitted option, a
\* missing field, a value not yet computed); Some(x) is the value x.
None == <<>>
Some(x) == <<x>>
Val(o) == o[1]

-----------------------------------------------------------------------------
(***************************************************************************)
(* Exact rational arithmetic for JavaScript numbers.                       *)
(***************************************************************************)
RECURSIVE Gcd(_, _)
Gcd(a, b) == IF b = 0 THEN a ELSE Gcd(b, a % b)

Abs(x) == IF x < 0 THEN -x ELSE x

\* n / d in lowest terms with a positive denominator (d # 0).
Rat(n, d) ==
    LET g == Gcd(Abs(n), Abs(d))
        s == IF d < 0 THEN -1 ELSE 1
    IN  [n |-> s * (n \div g), d |-> s * (d \div g)]

RInt(k) == [n |-> k, d |-> 1]

\* a * b, cancelling across before multiplying.
RMul(a, b) ==
    LET g1 == Gcd(Abs(a.n), b.d)
        g2 == Gcd(Abs(b.n), a.d)
    IN  IF a.n = 0 \/ b.n = 0 THEN RInt(0)
        ELSE [n |-> (a.n \div g1) * (b.n \div g2),
              d |-> (a.d \div g2) * (b.d \div g1)]

\* a / b for b # 0.
RDiv(a, b) ==
    RMul(a, IF b.n < 0 THEN [n |-> -b.d, d |-> -b.n] ELSE [n |-> b.d, d |-> b.n])

\* a - b
RSub(a, b) ==
    LET g == Gcd(a.d, b.d)
    IN  Rat(a.n * (b.d \div g) - b.n * (a.d \div g), (a.d \div g) * b.d)

\* a <= b, cancelling common factors before cross-multiplying.
RLeq(a, b) ==
    LET gd == Gcd(a.d, b.d)
        gn == Gcd(Abs(a.n), Abs(b.n))
        k  == IF gn = 0 THEN 1 ELSE gn
    IN  (a.n \div k) * (b.d \div gd) <= (b.n \div k) * (a.d \div gd)

RLt(a, b) == ~RLeq(b, a)

\* Math.min / Math.max on finite numbers.
MathMin(a, b) == IF RLeq(a, b) THEN a ELSE b
MathMax(a, b) == IF RLeq(a, b) THEN b ELSE a

-----------------------------------------------------------------------------
(***************************************************************************)
(* Page-Scale Calculator.                                                  *)
(***************************************************************************)
\* 96 / 25.4 px per mm
PxPerMm == RDiv(RInt(96), Rat(254, 10))

A4_WIDTH_PX  == RMul(RInt(210), PxPerMm)
A4_HEIGHT_PX == RMul(RInt(297), PxPerMm)

MARGIN_TOP_BOTTOM_MM == 0
MARGIN_LEFT_RIGHT_MM == 0
MARGIN_TB_PX == RMul(RInt(MARGIN_TOP_BOTTOM_MM), PxPerMm)
MARGIN_LR_PX == RMul(RInt(MARGIN_LEFT_RIGHT_MM), PxPerMm)

A4_USABLE_WIDTH  == RSub(A4_WIDTH_PX, RMul(MARGIN_LR_PX, RInt(2)))
A4_USABLE_HEIGHT == RSub(A4_HEIGHT_PX, RMul(MARGIN_TB_PX, RInt(2)))

TargetMode == {"preview", "print", "batch", "html", "editor"}

\* The default of the maxUpscaleFactor option, and the fixed floor and
\* screen cap of computeScaleForA4.
DefaultMaxUpscaleFactor == RInt(6)
MinScale       == Rat(3, 10)
ScreenMaxScale == RInt(1)

\* if (maxScreenWidth) ... : undefined and 0 are falsy.
Truthy(o) == o # None /\ Val(o) # 0

\* Mutant of DocumentScale: the upper limit without the 0.3 floor.
DocumentScaleNoFloor(w, h, maxUpscaleFactor) ==
    [scaleX |-> MathMin(RDiv(A4_USABLE_WIDTH, RInt(w)), maxUpscaleFactor),
     scaleY |-> MathMin(RDiv(A4_USABLE_HEIGHT, RInt(h)), maxUpscaleFactor)]

\* Mutant of DocumentScale: one aspect-preserving factor for both axes.
DocumentScaleUniform(w, h, maxUpscaleFactor) ==
    LET s0 == MathMin(RDiv(A4_USABLE_WIDTH, RInt(w)),
                      RDiv(A4_USABLE_HEIGHT, RInt(h)))
        s1 == MathMax(MathMin(s0, maxUpscaleFactor), MinScale)
    IN  [scaleX |-> s1, scaleY |-> s1]

\* Document modes (print, batch, html): each axis on its own.
DocumentScale(w, h, maxUpscaleFactor) ==
    LET sx0 == RDiv(A4_USABLE_WIDTH, RInt(w))
        sy0 == RDiv(A4_USABLE_HEIGHT, RInt(h))
        sx1 == MathMin(sx0, maxUpscaleFactor)
        sy1 == MathMin(sy0, maxUpscaleFactor)
    IN  [scaleX |-> MathMax(sx1, MinScale), scaleY |-> MathMax(sy1, MinScale)]

\* Mutant of ScreenScale: each axis gets its own fit, as in document modes.
ScreenScalePerAxis(w, h, msw, msh) ==
    LET sw0 == RDiv(A4_USABLE_WIDTH, RInt(w))
        sh0 == RDiv(A4_USABLE_HEIGHT, RInt(h))
        sw1 == IF Truthy(msw) THEN MathMin(sw0, RDiv(RInt(Val(msw)), RInt(w))) ELSE sw0
        sh1 == IF Truthy(msh) THEN MathMin(sh0, RDiv(RInt(Val(msh)), RInt(h))) ELSE sh0
    IN  [scaleX |-> MathMax(MathMin(sw1, ScreenMaxScale), MinScale),
         scaleY |-> MathMax(MathMin(sh1, ScreenMaxScale), MinScale)]

\* Mutant of ScreenScale: capped at the print upscale limit instead of 1.0.
ScreenScaleUpscaling(w, h, msw, msh) ==
    LET s0 == MathMin(RDiv(A4_USABLE_WIDTH, RInt(w)),
                      RDiv(A4_USABLE_HEIGHT, RInt(h)))
        s1 == IF Truthy(msw) THEN MathMin(s0, RDiv(RInt(Val(msw)), RInt(w))) ELSE s0
        s2 == IF Truthy(msh) THEN MathMin(s1, RDiv(RInt(Val(msh)), RInt(h))) ELSE s1
        s4 == MathMax(MathMin(s2, DefaultMaxUpscaleFactor), MinScale)
    IN  [scaleX |-> s4, scaleY |-> s4]

\* Mutant of ScreenScale: the caller's screen limits are ignored.
ScreenScaleNoLimits(w, h, msw, msh) ==
    LET s0 == MathMin(RDiv(A4_USABLE_WIDTH, RInt(w)),
                      RDiv(A4_USABLE_HEIGHT, RInt(h)))
        s4 == MathMax(MathMin(s0, ScreenMaxScale), MinScale)
    IN  [scaleX |-> s4, scaleY |-> s4]

\* Screen modes (preview, editor): one uniform scale.
ScreenScale(w, h, msw, msh) ==
    LET scaleByWidth  == RDiv(A4_USABLE_WIDTH, RInt(w))
        scaleByHeight == RDiv(A4_USABLE_HEIGHT, RInt(h))
        s0 == MathMin(scaleByWidth, scaleByHeight)
        s1 == IF Truthy(msw) THEN MathMin(s0, RDiv(RInt(Val(msw)), RInt(w))) ELSE s0
        s2 == IF Truthy(msh) THEN MathMin(s1, RDiv(RInt(Val(msh)), RInt(h))) ELSE s1
        s3 == MathMin(s2, ScreenMaxScale)
        s4 == MathMax(s3, MinScale)
    IN  [scaleX |-> s4, scaleY |-> s4]

computeScaleForA4(w, h, mode, msw, msh, maxUpscaleFactor) ==
    IF mode \in {"print", "batch", "html"}
    THEN DocumentScale(w, h, maxUpscaleFactor)
    ELSE IF mode \in {"preview", "editor"}
    THEN ScreenScale(w, h, msw, msh)
    ELSE [scaleX |-> RInt(1), scaleY |-> RInt(1)]

\* Native canvas sizes tried: the edges of both clamps on both axes
\* (793.7/6 = 132.3, 793.7/0.3 = 2645.7, 1122.5/6 = 187.1, 1122.5/0.3 =
\* 3741.7), the degenerate 1 and 100000, and multiples of 250 px.
MaxCanvasSteps == 4
CanvasSizes ==
    {1, 132, 133, 187, 188, 2645, 2646, 3741, 3742, 100000}
        \cup {250 * k : k \in 1..MaxCanvasSteps}

\* Screen limits tried: omitted, 0 (falsy), and multiples of 300 px
\* (the preview passes 1200 x 900).
MaxScreenSteps == 4
ScreenLimits == {None, Some(0)} \cup {Some(300 * k) : k \in 1..MaxScreenSteps}

BatchIdle ==
    /\ results = <<>>
    /\ blGroups = <<>>
    /\ totalBls = 0
    /\ totalManifests = 0
    /\ totalPages = [nan |-> FALSE, v |-> 0]
    /\ screenPages = <<>>
    /\ htmlPages = <<>>
    /\ batchPc = "idle"
    /\ serverJob = None
    /\ serverDocument = None

FitIdle ==
    /\ fitArgs = None
    /\ measurementCache = <<>>
    /\ fitResult = None
    /\ fitCalls = 0
    /\ fitSearch = None

FieldIdle ==
    /\ field = None
    /\ manifestData = <<>>
    /\ fieldValue = <<>>
    /\ sizing = None
    /\ textStyle = None
    /\ overflowStyle = None
    /\ presentational = None
    /\ htmlField = None
    /\ fieldPc = "idle"

ScaleIdle ==
    /\ baseWidthPx = 1
    /\ baseHeightPx = 1
    /\ targetMode = "preview"
    /\ maxScreenWidth = None
    /\ maxScreenHeight = None
    /\ scaleResult = None
    /\ htmlScale = None

TemplateIdle ==
    /\ structure = None
    /\ templateOptions = None
    /\ baseDimensions = None
    /\ templateScale = None

JobIdle ==
    /\ jobs = <<>>
    /\ generation = <<>>
    /\ expiry = <<>>
    /\ pdfDir = {}
    /\ response = None

EditorIdle == editor = None

PreviewIdle == preview = None

InitScale ==
    /\ baseWidthPx \in CanvasSizes
    /\ baseHeightPx \in CanvasSizes
    /\ targetMode \in TargetMode
    /\ maxScreenWidth \in ScreenLimits
    /\ maxScreenHeight \in ScreenLimits
    /\ scaleResult = None
    /\ htmlScale = None
    /\ BatchIdle
    /\ FitIdle
    /\ FieldIdle
    /\ TemplateIdle
    /\ JobIdle
    /\ EditorIdle
    /\ PreviewIdle

\* One call of computeScaleForA4; no call site passes maxUpscaleFactor, so
\* the option takes its default.
CallComputeScale ==
    /\ scaleResult = None
    /\ scaleResult' = Some(computeScaleForA4(baseWidthPx, baseHeightPx, targetMode,
                                             maxScreenWidth, maxScreenHeight,
                                             DefaultMaxUpscaleFactor))
    /\ UNCHANGED <<baseWidthPx, baseHeightPx, targetMode, maxScreenWidth,
                   maxScreenHeight, htmlScale>>
    /\ UNCHANGED <<batchVars, fitVars, fieldVars, templateVars, jobVars,
                 editorVars, previewVars>>

\* generateManifestHTML (batch-print.tsx): the scale of the HTML export,
\* computed on its own from the literals 793.7 and 1122.5.
HtmlA4WidthPx == Rat(7937, 10)
HtmlA4HeightPx == Rat(2245, 2)
HtmlMaxUpscale == RInt(6)
HtmlExportScale(w, h) ==
    LET sx0 == RDiv(HtmlA4WidthPx, RInt(w))
        sy0 == RDiv(HtmlA4HeightPx, RInt(h))
        sx1 == MathMin(sx0, HtmlMaxUpscale)
        sy1 == MathMin(sy0, HtmlMaxUpscale)
    IN  [scaleX |-> MathMax(sx1, MinScale), scaleY |-> MathMax(sy1, MinScale)]

\* The HTML export renders a manifest page of the same canvas.
GenerateManifestHTML ==
    /\ htmlScale = None
    /\ htmlScale' = Some(HtmlExportScale(baseWidthPx, baseHeightPx))
    /\ UNCHANGED <<baseWidthPx, baseHeightPx, targetMode, maxScreenWidth,
                   maxScreenHeight, scaleResult>>
    /\ UNCHANGED <<batchVars, fitVars, fieldVars, templateVars, jobVars,
                 editorVars, previewVars>>

NextScale == CallComputeScale \/ GenerateManifestHTML

SpecScale == InitScale /\ [][NextScale]_vars

ScaleDone == scaleResult # None
scaleX == Val(scaleResult).scaleX
scaleY == Val(scaleResult).scaleY
DocumentMode == targetMode \in {"print", "batch", "html"}
ScreenMode == targetMode \in {"preview", "editor"}

InRange(s) == RLeq(MinScale, s) /\ RLeq(s, RInt(6))

\* C1: for every canvas size, mode and screen limits, both returned factors
\* lie in [0.3, 6.0].
C1_ScaleClamp ==
    ScaleDone => InRange(scaleX) /\ InRange(scaleY)

\* A 100000 x 1 canvas in a document mode: floor on one axis, ceiling on the
\* other.
C1_Witness ==
    /\ ScaleDone /\ DocumentMode
    /\ baseWidthPx = 100000 /\ baseHeightPx = 1
    /\ scaleX = MinScale /\ scaleY = RInt(6)

\* clamp(x, lo, hi) as the claims state it.
Clamp(x, lo, hi) == IF RLt(x, lo) THEN lo ELSE IF RLt(hi, x) THEN hi ELSE x

RatioX == RDiv(A4_USABLE_WIDTH, RInt(baseWidthPx))
RatioY == RDiv(A4_USABLE_HEIGHT, RInt(baseHeightPx))

C7_AspectPreserved ==
    (ScaleDone /\ ScreenMode) => scaleX = scaleY

\* A canvas whose aspect is far from A4, with only one screen limit given.
C7_Witness ==
    /\ ScaleDone /\ ScreenMode
    /\ baseWidthPx = 1000 /\ baseHeightPx = 250
    /\ maxScreenWidth = Some(600) /\ maxScreenHeight = None
    /\ scaleX = Rat(6, 10)

\* C8: in screen modes the returned scale never exceeds 1.0.
C8_NoScreenUpscale ==
    (ScaleDone /\ ScreenMode) =>
        RLeq(scaleX, RInt(1)) /\ RLeq(scaleY, RInt(1))

\* A 1 x 1 canvas (the page is some 800 times larger) stays at scale 1.
C8_Witness ==
    /\ ScaleDone /\ ScreenMode
    /\ baseWidthPx = 1 /\ baseHeightPx = 1
    /\ scaleX = RInt(1)

\* C9 as stated: in screen modes a supplied maxScreenWidth (maxScreenHeight)
\* bounds the scale by maxScreenWidth / canvasWidth (maxScreenHeight /
\* canvasHeight).  A limit of 0 is read as no limit, as the code reads it.
C9_Original ==
    (ScaleDone /\ ScreenMode) =>
        /\ Truthy(maxScreenWidth) =>
               RLeq(scaleX, RDiv(RInt(Val(maxScreenWidth)), RInt(baseWidthPx)))
        /\ Truthy(maxScreenHeight) =>
               RLeq(scaleY, RDiv(RInt(Val(maxScreenHeight)), RInt(baseHeightPx)))

\* C9 amended: in screen modes a supplied non-zero maxScreenWidth
\* (maxScreenHeight) bounds the scale by max(0.3, maxScreenWidth /
\* canvasWidth) (max(0.3, maxScreenHeight / canvasHeight)): the limit is
\* kept unless it would push the scale under the 0.3 floor.
C9_ScreenLimitDownToFloor ==
    (ScaleDone /\ ScreenMode) =>
        /\ Truthy(maxScreenWidth) =>
               RLeq(scaleX, MathMax(MinScale,
                       RDiv(RInt(Val(maxScreenWidth)), RInt(baseWidthPx))))
        /\ Truthy(maxScreenHeight) =>
               RLeq(scaleY, MathMax(MinScale,
                       RDiv(RInt(Val(maxScreenHeight)), RInt(baseHeightPx))))

\* The screen limit is the binding constraint: 600 / 1000 on a canvas that
\* the page alone would show at 0.79.
C9_Witness ==
    /\ ScaleDone /\ ScreenMode
    /\ baseWidthPx = 1000 /\ baseHeightPx = 1000
    /\ maxScreenWidth = Some(600) /\ maxScreenHeight = Some(900)
    /\ scaleX = Rat(6, 10)

-----------------------------------------------------------------------------
(***************************************************************************)
(* Batch Paginator.                                                        *)
(*                                                                         *)
(* Strings are sequences of one-character strings.  A JavaScript number in *)
(* the page accounting is [nan, v]: the integer v, or NaN.                 *)
(***************************************************************************)
Num(k) == [nan |-> FALSE, v |-> k]
NaN    == [nan |-> TRUE, v |-> 0]

\* a + b and a * b on numbers; NaN is absorbing.
NAdd(a, b) == IF a.nan \/ b.nan THEN NaN ELSE Num(a.v + b.v)
NMul(a, b) == IF a.nan \/ b.nan THEN NaN ELSE Num(a.v * b.v)

RECURSIVE NSum(_)
NSum(seq) == IF seq = <<>> THEN Num(0) ELSE NAdd(Head(seq), NSum(Tail(seq)))

Digits == <<"0", "1", "2", "3", "4", "5", "6", "7", "8", "9">>
DigitValues == [c \in {Digits[i] : i \in 1..Len(Digits)} |->
                   (CHOOSE i \in 1..Len(Digits) : Digits[i] = c) - 1]
IsDigit(c) == c \in DOMAIN DigitValues
DigitValue(c) == DigitValues[c]

RECURSIVE SkipWhiteSpace(_)
SkipWhiteSpace(str) ==
    IF str # <<>> /\ Head(str) = " " THEN SkipWhiteSpace(Tail(str)) ELSE str

RECURSIVE ParseDigits(_, _)
ParseDigits(str, acc) ==
    IF str = <<>> \/ ~IsDigit(Head(str)) THEN acc
    ELSE ParseDigits(Tail(str), acc * 10 + DigitValue(Head(str)))

\* Mutant of parseInt: a string without a leading number parses to 0.
parseIntOrZero(str) ==
    LET t == SkipWhiteSpace(str)
        signed == t # <<>> /\ Head(t) \in {"-", "+"}
        u == IF signed THEN Tail(t) ELSE t
        mag == ParseDigits(u, 0)
    IN  IF signed /\ Head(t) = "-" THEN Num(-mag) ELSE Num(mag)

\* parseInt(str, 10): leading white space, an optional sign, then the longest
\* run of decimal digits; NaN when there is no digit.
parseInt(str) ==
    LET t == SkipWhiteSpace(str)
        signed == t # <<>> /\ Head(t) \in {"-", "+"}
        u == IF signed THEN Tail(t) ELSE t
        mag == ParseDigits(u, 0)
    IN  IF u = <<>> \/ ~IsDigit(Head(u)) THEN NaN
        ELSE IF signed /\ Head(t) = "-" THEN Num(-mag) ELSE Num(mag)

\* value || fallback on an optional string: undefined, null and "" are falsy.
OrDefault(o, fallback) == IF o = None \/ Val(o) = <<>> THEN fallback ELSE Val(o)

UNKNOWN == <<"U", "N", "K", "N", "O", "W", "N">>

\* The lines of groupByBl's loop body that read one record.
ItemBlNo(data)      == OrDefault(data.blNo, UNKNOWN)
ItemNo(data)        == OrDefault(data.itemNo, UNKNOWN)
ItemPltQty(data)    == parseInt(OrDefault(data.plt, <<"0">>))
ItemCopyCount(data) == parseInt(OrDefault(data.maesu, <<"1">>))

\* a.localeCompare(b) < 0 on upper-case ASCII keys: lexicographic by letter.
Alphabet == <<"0", "1", "2", "3", "4", "5", "6", "7", "8", "9",
              "A", "B", "C", "D", "E", "F", "G", "H", "I", "J", "K", "L", "M",
              "N", "O", "P", "Q", "R", "S", "T", "U", "V", "W", "X", "Y", "Z">>
CharRanks == [c \in {Alphabet[i] : i \in 1..Len(Alphabet)} |->
                 CHOOSE i \in 1..Len(Alphabet) : Alphabet[i] = c]
CharRank(c) == CharRanks[c]

RECURSIVE LocaleLess(_, _)
LocaleLess(a, b) ==
    IF b = <<>> THEN FALSE
    ELSE IF a = <<>> THEN TRUE
    ELSE IF Head(a) = Head(b) THEN LocaleLess(Tail(a), Tail(b))
    ELSE CharRank(Head(a)) < CharRank(Head(b))

\* groups.get(blNo) after the optional groups.set: the Map as a sequence in
\* insertion order.
GroupIndex(groups, blNo) ==
    IF \E i \in 1..Len(groups) : groups[i].blNo = blNo
    THEN CHOOSE i \in 1..Len(groups) : groups[i].blNo = blNo
    ELSE 0

\* Mutant of AddToGroup: the group total counts pallets, not pallets x copies.
AddToGroupPltOnly(groups, data, ref) ==
    LET blNo == ItemBlNo(data)
        item == [itemNo |-> ItemNo(data), pltQty |-> ItemPltQty(data),
                 copyCount |-> ItemCopyCount(data), data |-> data, ref |-> ref]
        gs == IF GroupIndex(groups, blNo) = 0
              THEN Append(groups, [blNo |-> blNo, items |-> <<>>,
                                   totalManifests |-> 0, totalPages |-> Num(0)])
              ELSE groups
        i == GroupIndex(gs, blNo)
    IN  [gs EXCEPT ![i] =
            [blNo |-> blNo,
             items |-> Append(gs[i].items, item),
             totalManifests |-> gs[i].totalManifests + 1,
             totalPages |-> NAdd(gs[i].totalPages, item.pltQty)]]

\* One iteration of results.forEach in groupByBl; ref is the position of the
\* record in results (the object the item keeps a reference to).
AddToGroup(groups, data, ref) ==
    LET blNo == ItemBlNo(data)
        item == [itemNo |-> ItemNo(data), pltQty |-> ItemPltQty(data),
                 copyCount |-> ItemCopyCount(data), data |-> data, ref |-> ref]
        gs == IF GroupIndex(groups, blNo) = 0
              THEN Append(groups, [blNo |-> blNo, items |-> <<>>,
                                   totalManifests |-> 0, totalPages |-> Num(0)])
              ELSE groups
        i == GroupIndex(gs, blNo)
    IN  [gs EXCEPT ![i] =
            [blNo |-> blNo,
             items |-> Append(gs[i].items, item),
             totalManifests |-> gs[i].totalManifests + 1,
             totalPages |-> NAdd(gs[i].totalPages,
                                 NMul(item.pltQty, item.copyCount))]]

RECURSIVE CollectGroups(_, _, _)
CollectGroups(groups, res, k) ==
    IF k > Len(res) THEN groups
    ELSE CollectGroups(AddToGroup(groups, res[k], k), res, k + 1)

\* Array.prototype.sort with (a, b) => a.blNo.localeCompare(b.blNo); the keys
\* of a Map are distinct, so the order is determined.
RECURSIVE InsertSorted(_, _)
InsertSorted(sorted, g) ==
    IF sorted = <<>> THEN <<g>>
    ELSE IF LocaleLess(g.blNo, Head(sorted).blNo) THEN <<g>> \o sorted
    ELSE <<Head(sorted)>> \o InsertSorted(Tail(sorted), g)

\* Mutant of SortByBlNo: the groups stay in insertion order.
SortByBlNoInsertionOrder(groups) == groups

RECURSIVE SortByBlNo(_)
SortByBlNo(groups) ==
    IF groups = <<>> THEN <<>>
    ELSE InsertSorted(SortByBlNo(Tail(groups)), Head(groups))

groupByBl(res) == SortByBlNo(CollectGroups(<<>>, res, 1))

RECURSIVE SumGroupPages(_)
SumGroupPages(groups) ==
    IF groups = <<>> THEN Num(0)
    ELSE NAdd(Head(groups).totalPages, SumGroupPages(Tail(groups)))

RECURSIVE SumGroupManifests(_)
SumGroupManifests(groups) ==
    IF groups = <<>> THEN 0
    ELSE Head(groups).totalManifests + SumGroupManifests(Tail(groups))

\* 1 + blGroups.length + reduce(...) + 1
ComputeTotalPages(groups) ==
    NAdd(NAdd(NAdd(Num(1), Num(Len(groups))), SumGroupPages(groups)), Num(1))

\* The pages of the document.  Every page carries the same fields: kind, the
\* group key (separator pages), the position in results of the record shown
\* (manifest pages) and the page total printed on it (start, end: the
\* document's; separator: the group's).
StartPage(total)   == [kind |-> "start", blNo |-> <<>>, ref |-> 0, totalPages |-> total]
EndPage(total)     == [kind |-> "end", blNo |-> <<>>, ref |-> 0, totalPages |-> total]
SeparatorPage(g)   == [kind |-> "separator", blNo |-> g.blNo, ref |-> 0,
                       totalPages |-> g.totalPages]
ManifestPage(item) == [kind |-> "manifest", blNo |-> <<>>, ref |-> item.ref,
                       totalPages |-> Num(0)]

\* The number of elements of Array.from({ length: n }), and of iterations of
\* for (let i = 0; i < n; i++): NaN and negative lengths give none.
LoopCount(n) == IF n.nan \/ n.v < 0 THEN 0 ELSE n.v

Repeat(x, n) == [i \in 1..n |-> x]

RECURSIVE Concat(_)
Concat(seqs) == IF seqs = <<>> THEN <<>> ELSE Head(seqs) \o Concat(Tail(seqs))

\* group.items.map(item => ... Array.from({ length: copies }) ...)
ItemPages(item) ==
    Repeat(ManifestPage(item), LoopCount(NMul(item.pltQty, item.copyCount)))

\* Mutant of GroupPages: the separator comes after the group's manifests.
GroupPagesSeparatorLast(g) ==
    Concat([k \in 1..Len(g.items) |-> ItemPages(g.items[k])]) \o <<SeparatorPage(g)>>

GroupPages(g) ==
    <<SeparatorPage(g)>> \o Concat([k \in 1..Len(g.items) |-> ItemPages(g.items[k])])

\* The page <div>s of the component's JSX: start, each group, end.
RenderPages(groups, total) ==
    <<StartPage(total)>>
        \o Concat([k \in 1..Len(groups) |-> GroupPages(groups[k])])
        \o <<EndPage(total)>>

\* handleDownloadHTML: pagesHTML += ... in the same order, the copies by a
\* for loop.
HtmlItemPages(item) ==
    Repeat(ManifestPage(item), LoopCount(NMul(item.pltQty, item.copyCount)))

HtmlGroupPages(g) ==
    <<SeparatorPage(g)>> \o Concat([k \in 1..Len(g.items) |-> HtmlItemPages(g.items[k])])

DownloadPages(groups, total) ==
    <<StartPage(total)>>
        \o Concat([k \in 1..Len(groups) |-> HtmlGroupPages(groups[k])])
        \o <<EndPage(total)>>

\* The batches tried.  Keys: missing, "B", "A" (so input order and sorted
\* order differ).  Quantities (plt, maesu): both missing; 2 x 3; 2 and 3 with
\* the multiplier missing; a negative unit count; a non-numeric unit count.
MaxItems == 3
BlNos == {None, Some(<<"B">>), Some(<<"A">>)}
Quantities ==
    { <<None, None>>,
      <<Some(<<"2">>), Some(<<"3">>)>>,
      <<Some(<<"2">>), None>>,
      <<Some(<<"3">>), None>>,
      <<Some(<<"-", "2">>), Some(<<"3">>)>>,
      <<Some(<<"a", "b", "c">>), Some(<<"2">>)>> }
Records ==
    { [blNo |-> b, itemNo |-> Some(<<"1">>), plt |-> q[1], maesu |-> q[2]] :
        b \in BlNos, q \in Quantities }
Batches == UNION { [1..n -> Records] : n \in 0..MaxItems }

InitBatch ==
    /\ results \in Batches
    /\ blGroups = <<>>
    /\ totalBls = 0
    /\ totalManifests = 0
    /\ totalPages = Num(0)
    /\ screenPages = <<>>
    /\ htmlPages = <<>>
    /\ batchPc = "mounted"
    /\ serverJob = None
    /\ serverDocument = None
    /\ ScaleIdle
    /\ FitIdle
    /\ FieldIdle
    /\ TemplateIdle
    /\ JobIdle
    /\ EditorIdle
    /\ PreviewIdle

\* The component function BatchPrint runs: grouping, the totals and the JSX.
Render ==
    /\ batchPc = "mounted"
    /\ \E groups \in {groupByBl(results)} :
       \E total \in {ComputeTotalPages(groups)} :
           /\ blGroups' = groups
           /\ totalBls' = Len(groups)
           /\ totalManifests' = SumGroupManifests(groups)
           /\ totalPages' = total
           /\ screenPages' = RenderPages(groups, total)
    /\ batchPc' = "rendered"
    /\ UNCHANGED <<results, htmlPages, serverJob, serverDocument>>
    /\ UNCHANGED <<scaleVars, fitVars, fieldVars, templateVars, jobVars,
                 editorVars, previewVars>>

\* The user clicks "HTML 파일 저장".
HandleDownloadHTML ==
    /\ batchPc = "rendered"
    /\ htmlPages' = DownloadPages(blGroups, totalPages)
    /\ batchPc' = "downloaded"
    /\ UNCHANGED <<results, blGroups, totalBls, totalManifests, totalPages,
                   screenPages, serverJob, serverDocument>>
    /\ UNCHANGED <<scaleVars, fitVars, fieldVars, templateVars, jobVars,
                 editorVars, previewVars>>

\* ---- The server's PDF service on the same batch (pdf-service.ts) ----
\* const copies = item.pltQty * 2
ServerCopies(pltQty) == NMul(pltQty, Num(2))

\* createJob: totalPages = 2, += blGroups.size, += pltQty * 2 for each item.
RECURSIVE ServerSumCopies(_, _)
ServerSumCopies(batch, k) ==
    IF k > Len(batch) THEN Num(0)
    ELSE NAdd(ServerCopies(ItemPltQty(batch[k])),
              ServerSumCopies(batch, k + 1))

ServerKeys(batch) ==
    { ItemBlNo(batch[k]) : k \in 1..Len(batch) }

createJob(batch) ==
    [status |-> "pending",
     totalPages |-> NAdd(NAdd(Num(2), Num(Cardinality(ServerKeys(batch)))),
                         ServerSumCopies(batch, 1)),
     processedPages |-> 0]

\* generateHTML: one iteration of manifestData.forEach.
ServerAddToGroup(groups, data, ref) ==
    LET blNo == ItemBlNo(data)
        item == [itemNo |-> ItemNo(data), pltQty |-> ItemPltQty(data), ref |-> ref]
        gs == IF GroupIndex(groups, blNo) = 0
              THEN Append(groups, [blNo |-> blNo, items |-> <<>>])
              ELSE groups
        i == GroupIndex(gs, blNo)
    IN  [gs EXCEPT ![i].items = Append(gs[i].items, item)]

RECURSIVE ServerCollectGroups(_, _, _)
ServerCollectGroups(groups, batch, k) ==
    IF k > Len(batch) THEN groups
    ELSE ServerCollectGroups(ServerAddToGroup(groups, batch[k], k),
                             batch, k + 1)

\* items.reduce((sum, item) => sum + item.pltQty * 2, 0)
RECURSIVE ServerGroupPages(_)
ServerGroupPages(items) ==
    IF items = <<>> THEN Num(0)
    ELSE NAdd(ServerCopies(Head(items).pltQty), ServerGroupPages(Tail(items)))

\* generateHTML: the sorted groups with the numbers printed on their
\* separator pages, and the totals of the start page.
generateHTML(batch) ==
    LET blGroupsArray == SortByBlNo(ServerCollectGroups(<<>>, batch, 1))
    IN  [groups |-> [k \in 1..Len(blGroupsArray) |->
                        [blNo |-> blGroupsArray[k].blNo,
                         items |-> blGroupsArray[k].items,
                         totalManifestsInBl |-> Len(blGroupsArray[k].items),
                         totalPagesInBl |-> ServerGroupPages(blGroupsArray[k].items)]],
         totalBls |-> Len(blGroupsArray),
         totalManifests |-> Len(batch),
         totalPages |-> NAdd(Num(2 + Len(blGroupsArray)),
                             ServerSumCopies(batch, 1))]

\* The batch is posted to /api/batch-print/pdf: createJob(manifestData).
BatchCreateJob ==
    /\ batchPc \in {"rendered", "downloaded"}
    /\ serverJob = None
    /\ serverJob' = Some(createJob(results))
    /\ UNCHANGED <<results, blGroups, totalBls, totalManifests, totalPages,
                   screenPages, htmlPages, batchPc, serverDocument>>
    /\ UNCHANGED <<scaleVars, fitVars, fieldVars, templateVars, jobVars,
                   editorVars, previewVars>>

\* generatePDF(job.id) builds the document: generateHTML(job.manifestData).
BatchGenerateHTML ==
    /\ serverJob # None
    /\ serverDocument = None
    /\ serverDocument' = Some(generateHTML(results))
    /\ UNCHANGED <<results, blGroups, totalBls, totalManifests, totalPages,
                   screenPages, htmlPages, batchPc, serverJob>>
    /\ UNCHANGED <<scaleVars, fitVars, fieldVars, templateVars, jobVars,
                   editorVars, previewVars>>

NextBatch == Render \/ HandleDownloadHTML

\* The batch is shown by the component and posted to the PDF service.
NextServer == Render \/ BatchCreateJob \/ BatchGenerateHTML

SpecServer == InitBatch /\ [][NextServer]_vars

SpecBatch == InitBatch /\ [][NextBatch]_vars

Rendered   == batchPc \in {"rendered", "downloaded"}
Downloaded == batchPc = "downloaded"

\* The group keys of the batch, and an item's copy count as the separator
\* page prints it: unit count times multiplier.
BatchKeys == { ItemBlNo(results[i]) : i \in 1..Len(results) }
ItemCopies(data) == NMul(ItemPltQty(data), ItemCopyCount(data))

RECURSIVE SumCopies(_)
SumCopies(idx) ==
    IF idx = {} THEN Num(0)
    ELSE LET i == CHOOSE j \in idx : TRUE
         IN  NAdd(ItemCopies(results[i]), SumCopies(idx \ {i}))

\* C2: the declared total is 2 + G + the sum of the items' copy counts, and
\* each group's declared page count is the sum of its own items' copy counts
\* (a NaN copy count makes the sums NaN on both sides).
C2_PageCountConservation ==
    Rendered =>
        /\ Len(blGroups) = Cardinality(BatchKeys)
        /\ totalPages = NAdd(Num(2 + Cardinality(BatchKeys)),
                             SumCopies(1..Len(results)))
        /\ \A k \in 1..Len(blGroups) :
               blGroups[k].totalPages =
                   SumCopies({ i \in 1..Len(results) :
                                  ItemBlNo(results[i]) = blGroups[k].blNo })

\* The example of the spec: groups {6} and {2, 3} declare 15 pages.
C2_Witness ==
    /\ Rendered
    /\ Len(blGroups) = 2
    /\ Len(blGroups[1].items) = 1 /\ blGroups[1].totalPages = Num(6)
    /\ Len(blGroups[2].items) = 2 /\ blGroups[2].totalPages = Num(5)
    /\ ItemCopies(results[2]) = Num(2) /\ ItemCopies(results[3]) = Num(3)
    /\ totalPages = Num(15)

\* C3: the number of pages emitted equals the declared totalPages, in the
\* on-screen view and in the downloaded HTML, for every batch.
C3_EmittedEqualsDeclared ==
    /\ Rendered => Num(Len(screenPages)) = totalPages
    /\ Downloaded => Num(Len(htmlPages)) = totalPages

\* The group a page belongs to.
PageKey(p) == IF p.kind = "separator" THEN p.blNo ELSE ItemBlNo(results[p.ref])

\* The fixed order of the document: start page, then one block per group (its
\* separator, then its items' pages in input order, the copies of an item
\* together), then the end page.
InOrder(pages) ==
    LET n == Len(pages)
        inner == 2..(n - 1)
    IN  /\ n >= 2
        /\ pages[1].kind = "start"
        /\ pages[n].kind = "end"
        /\ \A i \in inner : pages[i].kind \in {"separator", "manifest"}
        /\ \A i \in inner : pages[i].kind = "manifest" => pages[i].ref \in 1..Len(results)
        \* a page opens a block exactly if it is a separator
        /\ \A i \in inner :
               (pages[i].kind = "separator") <=>
                   (i = 2 \/ PageKey(pages[i - 1]) # PageKey(pages[i]))
        \* one block per group: no group's pages are split by another's
        /\ Cardinality({ i \in inner : pages[i].kind = "separator" })
               = Cardinality(BatchKeys)
        /\ { PageKey(pages[i]) : i \in inner } = BatchKeys
        \* inside a block the records follow the input order
        /\ \A i \in inner :
               (i + 1 \in inner /\ pages[i].kind = "manifest"
                     /\ pages[i + 1].kind = "manifest")
                   => pages[i].ref <= pages[i + 1].ref

\* C4: the emitted sequence is start, then per group its separator followed
\* by its items' pages in input order with each item's copies contiguous,
\* then end; both in the rendered view and in the downloaded HTML.
C4_PageOrder ==
    /\ Rendered => InOrder(screenPages)
    /\ Downloaded => InOrder(htmlPages)

\* Input B(2 copies), A(3 copies), B(6 copies): the document is
\* start, sep A, A A A, sep B, B B, B B B B B B, end.
C4_Witness ==
    /\ Downloaded
    /\ Len(results) = 3
    /\ ItemBlNo(results[1]) = <<"B">> /\ ItemCopies(results[1]) = Num(2)
    /\ ItemBlNo(results[2]) = <<"A">> /\ ItemCopies(results[2]) = Num(3)
    /\ ItemBlNo(results[3]) = <<"B">> /\ ItemCopies(results[3]) = Num(6)
    /\ Len(htmlPages) = 15 /\ Len(screenPages) = 15
    /\ htmlPages[2].kind = "separator" /\ htmlPages[2].blNo = <<"A">>
    /\ htmlPages[6].kind = "separator" /\ htmlPages[6].blNo = <<"B">>
    /\ htmlPages[8].ref = 1 /\ htmlPages[9].ref = 3

\* The unit count and multiplier the claim prescribes: the parsed value, or
\* 0 (unit count) and 1 (multiplier) when the field is missing or has no
\* parseable number.
FallbackUnit(data) ==
    IF data.plt = None \/ parseInt(Val(data.plt)).nan THEN 0
    ELSE parseInt(Val(data.plt)).v
FallbackMultiplier(data) ==
    IF data.maesu = None \/ parseInt(Val(data.maesu)).nan THEN 1
    ELSE parseInt(Val(data.maesu)).v

\* C5: every item's copy count is unitCount x multiplier with a missing or
\* unparseable unit count taken as 0 and a missing or unparseable multiplier
\* taken as 1 ("abc" x "2" gives 0).
C5_CopyCountFallback ==
    Rendered =>
        \A k \in 1..Len(blGroups) : \A j \in 1..Len(blGroups[k].items) :
            LET item == blGroups[k].items[j]
            IN  NMul(item.pltQty, item.copyCount)
                    = Num(FallbackUnit(item.data) * FallbackMultiplier(item.data))

-----------------------------------------------------------------------------
(***************************************************************************)
(* Optimal-Fit Solver.                                                     *)
(*                                                                         *)
(* A font size is [n, d], the number n / d px: the sizes the bisection     *)
(* visits have d = Grid = 2^20, the height cap 0.95 x targetHeight has     *)
(* d = 20, the default 12 has d = 1.  A measured width is [k, size]: the   *)
(* number k x size / 50 px.                                                *)
(***************************************************************************)
Grid == 1048576
MinFontSize == 1
MaxFontSize == 1000
FitIterations == 20
DefaultFontSize == 12

\* n / d <= a / b for n >= 0, a >= 0, d > 0, b > 0, without overflowing
\* 32-bit integers (b x d < 2^31).
BigLeq(n, d, a, b) ==
    LET q == n \div d
        r == n % d
        rest == a - q * b
    IN  IF rest < 0 THEN FALSE
        ELSE IF rest >= b THEN TRUE
        ELSE r * b <= rest * d

\* A font weight is a string or a number.
StringWeight(str) == [isNumber |-> FALSE, str |-> str, num |-> 0]
NumberWeight(num) == [isNumber |-> TRUE, str |-> "", num |-> num]

\* weightMap[weight] || 400
fontWeightToNumber(weight) ==
    IF weight.isNumber THEN weight.num
    ELSE CASE weight.str = "normal" -> 400
           [] weight.str = "bold" -> 700
           [] weight.str = "100" -> 100
           [] weight.str = "200" -> 200
           [] weight.str = "300" -> 300
           [] weight.str = "400" -> 400
           [] weight.str = "500" -> 500
           [] weight.str = "600" -> 600
           [] weight.str = "700" -> 700
           [] weight.str = "800" -> 800
           [] weight.str = "900" -> 900
           [] OTHER -> 400

\* ctx.measureText(text).width under font `${weight} ${size}px "Inter", ...`:
\* the glyph advances add up, each proportional to the font size; a glyph is
\* taken to advance 0.5 em, 0.6 em in a bold face (weight 600 and up).
EmFiftieths(numericWeight) == IF numericWeight >= 600 THEN 30 ELSE 25
CanvasMeasureText(text, size, numericWeight) ==
    [k |-> Len(text) * EmFiftieths(numericWeight), size |-> size]

\* width <= targetWidth * 0.98, i.e. k x size / 50 <= 49 x targetWidth / 50
WidthFits(width, targetWidth) ==
    IF width.k = 0 THEN targetWidth >= 0
    ELSE BigLeq(width.size.n, width.size.d, 49 * targetWidth, width.k)

\* The characters of a text, joined into one string.
RECURSIVE Join(_)
Join(chars) == IF chars = <<>> THEN "" ELSE Head(chars) \o Join(Tail(chars))

\* String(number), as a template literal prints it: the integer part, then
\* "." and the decimal digits of the fraction if there is one.  (A fraction
\* k / 2^20 has a finite expansion; a JavaScript engine prints the shortest
\* digit string that reads back as the same number, which like this one is
\* made of digits and "." only and differs for different numbers.)
RECURSIVE FractionToString(_, _)
FractionToString(r, d) ==
    IF r = 0 THEN ""
    ELSE ToString((r * 10) \div d) \o FractionToString((r * 10) % d, d)
NumberToString(size) ==
    ToString(size.n \div size.d)
        \o (IF size.n % size.d = 0 THEN ""
            ELSE "." \o FractionToString(size.n % size.d, size.d))

\* A cache key that leaves the weight out.
CacheKeyNoWeight(text, size, numericWeight) ==
    Join(text) \o "_" \o NumberToString(size)

\* const cacheKey = `${text}_${fontSize}_${numericWeight}`
CacheKey(text, size, numericWeight) ==
    Join(text) \o "_" \o NumberToString(size) \o "_" \o ToString(numericWeight)

\* measureTextWidth: the cached width if there is one, else the measured
\* width, which is then cached.  Returns the width and the cache.
measureTextWidth(cache, text, size, weight) ==
    LET numericWeight == fontWeightToNumber(weight)
        cacheKey == CacheKey(text, size, numericWeight)
    IN  IF cacheKey \in DOMAIN cache
        THEN [width |-> cache[cacheKey], cache |-> cache]
        ELSE LET width == CanvasMeasureText(text, size, numericWeight)
             IN  [width |-> width, cache |-> cache @@ (cacheKey :> width)]

\* A search that, after a size fits, goes on looking below it.
RECURSIVE BisectDownward(_, _, _, _, _, _, _, _, _)
BisectDownward(i, minSize, maxSize, optimalSize, cache, measurements, text, targetWidth, weight) ==
    IF i >= FitIterations
    THEN [optimalSize |-> optimalSize, cache |-> cache,
          measurements |-> measurements]
    ELSE LET midSize == (minSize + maxSize) \div 2
             m == measureTextWidth(cache, text, [n |-> midSize, d |-> Grid], weight)
         IN  BisectDownward(i + 1, minSize, midSize,
                            IF WidthFits(m.width, targetWidth)
                            THEN midSize ELSE optimalSize,
                            m.cache, measurements + 1, text, targetWidth, weight)

\* The for loop of calculateOptimalFontSize, from iteration i on; minSize,
\* maxSize and optimalSize in units of 1 / Grid px; measurements counts the
\* calls of measureTextWidth.
RECURSIVE Bisect(_, _, _, _, _, _, _, _, _)
Bisect(i, minSize, maxSize, optimalSize, cache, measurements, text, targetWidth, weight) ==
    IF i >= FitIterations
    THEN [optimalSize |-> optimalSize, cache |-> cache,
          measurements |-> measurements]
    ELSE LET midSize == (minSize + maxSize) \div 2
             m == measureTextWidth(cache, text, [n |-> midSize, d |-> Grid], weight)
         IN  IF WidthFits(m.width, targetWidth)
             THEN Bisect(i + 1, midSize, maxSize, midSize, m.cache,
                         measurements + 1, text, targetWidth, weight)
             ELSE Bisect(i + 1, minSize, midSize, optimalSize, m.cache,
                         measurements + 1, text, targetWidth, weight)

\* A stretch factor p / q, kept as the pair of its operands.
Quot(p, q) == [p |-> p, q |-> q]
One == Quot([n |-> 1, d |-> 1], [n |-> 1, d |-> 1])

\* A non-stretch branch without the height cap.
finalSizeUncapped(optimalSize, targetHeight) == optimalSize

\* const maxFontSizeByHeight = targetHeight * 0.95;
\* const finalSize = Math.min(optimalSize, maxFontSizeByHeight);
finalSize(optimalSize, targetHeight) ==
    LET maxFontSizeByHeight == [n |-> 19 * targetHeight, d |-> 20]
    IN  IF BigLeq(optimalSize.n, optimalSize.d,
                  maxFontSizeByHeight.n, maxFontSizeByHeight.d)
        THEN optimalSize ELSE maxFontSizeByHeight

\* A stretch branch that leaves the text unstretched.
stretchScaleYOne(optimalSize, targetHeight) == One

\* const scaleY = (targetHeight * 0.98) / optimalSize;
stretchScaleY(optimalSize, targetHeight) ==
    Quot([n |-> 49 * targetHeight, d |-> 50], optimalSize)

\* calculateOptimalFontSize past its empty-text guard: the search and the two
\* ways of returning.
SolveFit(cache, text, targetWidth, targetHeight, fontWeight, stretchHeight) ==
    LET numericWeight == fontWeightToNumber(fontWeight)
        found == Bisect(0, MinFontSize * Grid, MaxFontSize * Grid,
                        MinFontSize * Grid, cache, 0, text, targetWidth,
                        NumberWeight(numericWeight))
        optimalSize == [n |-> found.optimalSize, d |-> Grid]
        search == Some([optimalSize |-> optimalSize,
                        measurements |-> found.measurements])
    IN  IF stretchHeight
        THEN [result |-> [fontSize |-> optimalSize,
                          scaleX |-> One,
                          scaleY |-> stretchScaleY(optimalSize, targetHeight)],
              cache |-> found.cache, search |-> search]
        ELSE [result |-> [fontSize |-> finalSize(optimalSize, targetHeight),
                          scaleX |-> One, scaleY |-> One],
              cache |-> found.cache, search |-> search]

\* A solver without the empty-text guard.
calculateOptimalFontSizeUnguarded(cache, text, targetWidth, targetHeight, fontWeight, stretchHeight) ==
    SolveFit(cache, text, targetWidth, targetHeight, fontWeight, stretchHeight)

\* calculateOptimalFontSize: the result, the cache it leaves and the search
\* it ran (None if it ran none).
calculateOptimalFontSize(cache, text, targetWidth, targetHeight, fontWeight, stretchHeight) ==
    IF Len(text) = 0
    THEN [result |-> [fontSize |-> [n |-> DefaultFontSize, d |-> 1],
                      scaleX |-> One, scaleY |-> One],
          cache |-> cache, search |-> None]
    ELSE SolveFit(cache, text, targetWidth, targetHeight, fontWeight, stretchHeight)

\* The calls tried: an empty, a short and a long text (the short one has the
\* key's separator and a digit in it); boxes from degenerate to roomy; weights
\* as names and as a number.
MaxFitCalls == 2
Texts == { <<>>, <<"A", "_", "1">>,
           <<"A", "B", "C", "D", "E", "F", "G", "H", "I", "J">> }
TargetWidths  == {0, 3, 80}
TargetHeights == {0, 10, 30}
FontWeights == {StringWeight("normal"), StringWeight("bold"), NumberWeight(700)}
FitArguments ==
    [text : Texts, targetWidth : TargetWidths, targetHeight : TargetHeights,
     fontWeight : FontWeights, stretchHeight : BOOLEAN]

InitFit ==
    /\ fitArgs \in { Some(a) : a \in FitArguments }
    /\ measurementCache = <<>>
    /\ fitResult = None
    /\ fitCalls = 0
    /\ fitSearch = None
    /\ ScaleIdle
    /\ BatchIdle
    /\ FieldIdle
    /\ TemplateIdle
    /\ JobIdle
    /\ EditorIdle
    /\ PreviewIdle

\* One call of calculateOptimalFontSize with the arguments at hand.
CallFit ==
    /\ fitArgs # None /\ fitResult = None
    /\ LET a == Val(fitArgs)
           out == calculateOptimalFontSize(measurementCache, a.text,
                      a.targetWidth, a.targetHeight, a.fontWeight,
                      a.stretchHeight)
       IN  /\ fitResult' = Some(out.result)
           /\ measurementCache' = out.cache
           /\ fitSearch' = out.search
    /\ fitCalls' = fitCalls + 1
    /\ UNCHANGED fitArgs
    /\ UNCHANGED <<scaleVars, batchVars, fieldVars, templateVars, jobVars,
                 editorVars, previewVars>>

\* The next field is rendered: new arguments, the cache is kept.
NextField ==
    /\ fitResult # None
    /\ fitCalls < MaxFitCalls
    /\ fitArgs' \in { Some(a) : a \in FitArguments }
    /\ fitResult' = None
    /\ fitSearch' = None
    /\ UNCHANGED <<measurementCache, fitCalls>>
    /\ UNCHANGED <<scaleVars, batchVars, fieldVars, templateVars, jobVars,
                 editorVars, previewVars>>

NextFit == CallFit \/ NextField

SpecFit == InitFit /\ [][NextFit]_vars

FitDone == fitResult # None
NonStretchFit ==
    FitDone /\ Len(Val(fitArgs).text) > 0 /\ ~Val(fitArgs).stretchHeight

\* The width the Text Metrics Provider reports for the fitted size.
FittedWidth ==
    CanvasMeasureText(Val(fitArgs).text, Val(fitResult).fontSize,
                      fontWeightToNumber(Val(fitArgs).fontWeight))

\* C10: after every non-stretch fit of a non-empty text the width measured at
\* the returned fontSize is at most 0.98 x targetWidth (stated here for boxes
\* of positive width and height; the degenerate boxes fail it all the more).
C10_WidthContainment ==
    (NonStretchFit /\ Val(fitArgs).targetWidth > 0 /\ Val(fitArgs).targetHeight > 0)
        => WidthFits(FittedWidth, Val(fitArgs).targetWidth)

\* fontSize <= 0.95 x targetHeight
HeightContained(fontSize, targetHeight) ==
    BigLeq(fontSize.n, fontSize.d, 19 * targetHeight, 20)

\* C11 as stated: after every non-stretch fit, of an empty text too, fontSize
\* is at most 0.95 x targetHeight and scaleX = scaleY = 1.
C11_Original ==
    (FitDone /\ ~Val(fitArgs).stretchHeight) =>
        /\ HeightContained(Val(fitResult).fontSize, Val(fitArgs).targetHeight)
        /\ Val(fitResult).scaleX = One
        /\ Val(fitResult).scaleY = One

\* C11: after every non-stretch fit of a non-empty text the returned fontSize
\* is at most 0.95 x targetHeight and scaleX = scaleY = 1 (an empty text gets
\* the fixed fontSize 12 whatever the height of the box).
C11_HeightContainment ==
    NonStretchFit =>
        /\ HeightContained(Val(fitResult).fontSize, Val(fitArgs).targetHeight)
        /\ Val(fitResult).scaleX = One
        /\ Val(fitResult).scaleY = One

\* A non-stretch fit whose width-fit size was above the height cap and came
\* back as the cap itself.
C11_Witness ==
    /\ NonStretchFit
    /\ Val(fitArgs).targetHeight > 0
    /\ ~HeightContained(Val(fitSearch).optimalSize, Val(fitArgs).targetHeight)
    /\ Val(fitResult).fontSize = [n |-> 19 * Val(fitArgs).targetHeight, d |-> 20]

\* The resolution of the search, in units of 1 / Grid px: the interval
\* [1, 1000] halved 20 times, (1000 - 1) / 2^20 px.
SearchResolution == ((MaxFontSize - MinFontSize) * Grid) \div 2^FitIterations

\* Font sizes of [1, 1000] more than the resolution above the size n / Grid:
\* the nearest ones (half a grid step and one grid step past the resolution),
\* one further up, the middle of what is left, and 1000 itself.
LargerSizes(n) ==
    { p \in { [n |-> 2 * (n + SearchResolution) + 1, d |-> 2 * Grid],
              [n |-> n + SearchResolution + 1, d |-> Grid],
              [n |-> n + 2 * SearchResolution, d |-> Grid],
              [n |-> (n + MaxFontSize * Grid) \div 2, d |-> Grid],
              [n |-> MaxFontSize * Grid, d |-> Grid] } :
        /\ p.n <= MaxFontSize * p.d
        /\ p.n * (Grid \div (p.d \div 2)) > 2 * (n + SearchResolution) }

SearchedFit == FitDone /\ Len(Val(fitArgs).text) > 0

\* C12: a fit of a non-empty text runs the search with exactly 20 calls of
\* measureTextWidth, and (the measured width growing with the font size) no
\* font size of [1, 1000] that is more than 999 / 2^20 above the width-fit
\* size it found has a measured width <= 0.98 x targetWidth.
C12_LargestFit ==
    SearchedFit =>
        /\ fitSearch # None
        /\ Val(fitSearch).measurements = 20
        /\ \A p \in LargerSizes(Val(fitSearch).optimalSize.n) :
               ~WidthFits(CanvasMeasureText(Val(fitArgs).text, p,
                              fontWeightToNumber(Val(fitArgs).fontWeight)),
                          Val(fitArgs).targetWidth)

\* A search that found a fitting size above the minimum and below the top of
\* the range, so that larger sizes exist and are told apart from it.
C12_Witness ==
    /\ SearchedFit
    /\ Val(fitSearch).optimalSize.n > MinFontSize * Grid
    /\ Cardinality(LargerSizes(Val(fitSearch).optimalSize.n)) = 5
    /\ WidthFits(CanvasMeasureText(Val(fitArgs).text, Val(fitSearch).optimalSize,
                     fontWeightToNumber(Val(fitArgs).fontWeight)),
                 Val(fitArgs).targetWidth)

StretchFit == SearchedFit /\ Val(fitArgs).stretchHeight

\* The stretch factor quot has the value a / b.
QuotEquals(quot, a, b) == quot.p.n * quot.q.d * b = a * quot.p.d * quot.q.n

FixedDefaults ==
    [fontSize |-> [n |-> 12, d |-> 1], scaleX |-> One, scaleY |-> One]

\* C14: a call of calculateOptimalFontSize with an empty text returns exactly
\* {fontSize: 12, scaleX: 1, scaleY: 1}, whatever the box, the weight and the
\* stretch flag, runs no search (no call of measureTextWidth) and leaves the
\* measurement cache as it was.
C14_EmptyTextDefaults ==
    [][(fitResult = None /\ fitResult' # None /\ Len(fitArgs'[1].text) = 0) =>
           /\ fitResult' = Some(FixedDefaults)
           /\ fitSearch' = None
           /\ measurementCache' = measurementCache]_vars

\* An empty text has been fitted, as a stretch fit in a box of no width,
\* while the cache held measurements of an earlier call.
C14_Witness ==
    /\ FitDone
    /\ Len(Val(fitArgs).text) = 0
    /\ Val(fitArgs).stretchHeight
    /\ Val(fitArgs).targetWidth = 0
    /\ measurementCache # <<>>
    /\ Val(fitResult) = FixedDefaults

\* C15: a fit of a non-empty text into a box of width 0 or height 0 returns
\* the fixed defaults {fontSize: 12, scaleX: 1, scaleY: 1} without running
\* the search; no returned font size or stretch factor is zero.
C15_DegenerateDefaults ==
    (SearchedFit /\ (Val(fitArgs).targetWidth = 0 \/ Val(fitArgs).targetHeight = 0))
        => /\ Val(fitResult) = FixedDefaults
           /\ fitSearch = None

\* What the call at hand returns when the measurement cache is empty.
FreshResult ==
    calculateOptimalFontSize(<<>>, Val(fitArgs).text, Val(fitArgs).targetWidth,
                             Val(fitArgs).targetHeight, Val(fitArgs).fontWeight,
                             Val(fitArgs).stretchHeight).result

\* C16: whatever calls filled the measurement cache before it, a call of
\* calculateOptimalFontSize returns what it returns on an empty cache, so two
\* calls with identical inputs return identical output with any other calls
\* in between; and no step changes or removes an entry of the cache.
C16_CacheStable ==
    /\ [](FitDone => Val(fitResult) = FreshResult)
    /\ [][\A key \in DOMAIN measurementCache :
              /\ key \in DOMAIN measurementCache'
              /\ measurementCache'[key] = measurementCache[key]]_vars

\* A second search has run on a cache that already held some, but not all,
\* of the widths it asked for.
C16_Witness ==
    /\ SearchedFit
    /\ fitCalls = 2
    /\ Cardinality(DOMAIN measurementCache) > 20
    /\ Cardinality(DOMAIN measurementCache) < 40

-----------------------------------------------------------------------------
(***************************************************************************)
(* Field Overlay Renderer.                                                 *)
(*                                                                         *)
(* ManifestFieldRenderer puts the overflow properties on the text element  *)
(* (textStyle); PresentationalManifest puts them on the field's box        *)
(* (overflowStyle, spread into the style of the absolutely positioned      *)
(* div).  Both give that div the class overflow-hidden or overflow-visible.*)
(* A CSS property that is not set is "", a line clamp that is not set is   *)
(* None.                                                                   *)
(***************************************************************************)
NoStyle ==
    [display |-> "", WebkitLineClamp |-> None, WebkitBoxOrient |-> "",
     overflow |-> "", textOverflow |-> "", whiteSpace |-> "",
     wordWrap |-> "", overflowWrap |-> ""]

\* field.maxLines && field.maxLines > 0
HasMaxLines(f) == f.maxLines # None /\ Val(f.maxLines) > 0

\* !field.maxLines
NotMaxLines(f) == f.maxLines = None \/ Val(f.maxLines) = 0

\* Math.max(1, Math.floor(field.height / (sizing.fontSize * 1.2)))
EstimatedMaxLines(f, size) ==
    LET lines == ((5 * f.height * size.d) \div size.n) \div 6
    IN  IF lines < 1 THEN 1 ELSE lines

\* ManifestFieldRenderer: the overflow policy, lines 78-121.
FieldRendererTextStyle(f, size) ==
    IF HasMaxLines(f)
    THEN LET clamped == [NoStyle EXCEPT !.display = "-webkit-box",
                                        !.WebkitLineClamp = f.maxLines,
                                        !.WebkitBoxOrient = "vertical",
                                        !.overflow = "hidden",
                                        !.whiteSpace = "normal"]
         IN  IF f.wordWrap
             THEN [clamped EXCEPT !.wordWrap = "break-word",
                                  !.overflowWrap = "break-word"]
             ELSE clamped
    ELSE IF f.overflow = "ellipsis"
    THEN IF ~f.wordWrap
         THEN [NoStyle EXCEPT !.overflow = "hidden",
                              !.textOverflow = "ellipsis",
                              !.whiteSpace = "nowrap"]
         ELSE [NoStyle EXCEPT !.display = "-webkit-box",
                              !.WebkitLineClamp = Some(EstimatedMaxLines(f, size)),
                              !.WebkitBoxOrient = "vertical",
                              !.overflow = "hidden",
                              !.whiteSpace = "normal",
                              !.wordWrap = "break-word",
                              !.overflowWrap = "break-word"]
    ELSE IF f.overflow = "hidden"
    THEN IF f.wordWrap
         THEN [NoStyle EXCEPT !.overflow = "hidden",
                              !.wordWrap = "break-word",
                              !.overflowWrap = "break-word",
                              !.whiteSpace = "normal"]
         ELSE [NoStyle EXCEPT !.overflow = "hidden", !.whiteSpace = "nowrap"]
    ELSE IF f.wordWrap
         THEN [NoStyle EXCEPT !.wordWrap = "break-word",
                              !.overflowWrap = "break-word",
                              !.whiteSpace = "normal"]
         ELSE [NoStyle EXCEPT !.whiteSpace = "nowrap"]

\* PresentationalManifest: the four ifs of lines 63-87, one after the other.
OverflowStep(f, style) ==
    IF f.overflow = "hidden" \/ f.overflow = "ellipsis"
    THEN IF f.overflow = "ellipsis"
         THEN [style EXCEPT !.overflow = "hidden",
                            !.textOverflow = "ellipsis",
                            !.whiteSpace = "nowrap"]
         ELSE [style EXCEPT !.overflow = "hidden"]
    ELSE style
MaxLinesStep(f, style) ==
    IF HasMaxLines(f)
    THEN [style EXCEPT !.display = "-webkit-box",
                       !.WebkitLineClamp = f.maxLines,
                       !.WebkitBoxOrient = "vertical",
                       !.overflow = "hidden"]
    ELSE style
WordWrapStep(f, style) ==
    IF f.wordWrap
    THEN [style EXCEPT !.wordWrap = "break-word",
                       !.overflowWrap = "break-word",
                       !.whiteSpace = "normal"]
    ELSE style
\* A renderer without the no-wrap default.
NoWrapDefaultStepSkipped(f, style) == style
NoWrapDefaultStep(f, style) ==
    IF ~f.wordWrap /\ NotMaxLines(f) /\ f.overflow # "ellipsis"
    THEN [style EXCEPT !.whiteSpace = "nowrap"]
    ELSE style
PresentationalOverflowStyle(f) ==
    NoWrapDefaultStep(f, WordWrapStep(f, MaxLinesStep(f, OverflowStep(f, NoStyle))))

\* className of the field's box in both renderers.
ContainerClassName(f) ==
    IF f.stretchHeight THEN "overflow-hidden" ELSE "overflow-visible"

\* A value of the data record: undefined, null or a string.
Undefined == [kind |-> "undefined", str |-> <<>>]
Null == [kind |-> "null", str |-> <<>>]
Str(text) == [kind |-> "string", str |-> text]

\* A lookup without the null check: String(value) of whatever is found.
getFieldValueUnchecked(record, key) ==
    LET value == IF key \in DOMAIN record THEN record[key] ELSE
                     [kind |-> "undefined", str |-> <<>>]
    IN  CASE value.kind = "string" -> value.str
          [] value.kind = "null" -> <<"n", "u", "l", "l">>
          [] OTHER -> <<"u", "n", "d", "e", "f", "i", "n", "e", "d">>

\* const value = data[field]; return value != null ? String(value) : "";
getFieldValue(record, key) ==
    LET value == IF key \in DOMAIN record THEN record[key] ELSE Undefined
    IN  IF value.kind # "null" /\ value.kind # "undefined"
        THEN value.str ELSE <<>>

\* The fields rendered: every overflow setting, with and without line limit.
MaxMaxLines == 2
FieldHeights == {10, 60}
FieldWidth == 80
Fields ==
    [width : {FieldWidth}, height : FieldHeights,
     fontWeight : {StringWeight("normal"), StringWeight("bold")},
     stretchHeight : BOOLEAN, overflow : {"visible", "hidden", "ellipsis"},
     wordWrap : BOOLEAN,
     maxLines : {None} \cup { Some(k) : k \in 0..MaxMaxLines }]

\* The field's dataKey, and the data records: without the key, with the key
\* holding undefined or null, with the key holding a string.
DataKey == "plt"
DataRecords ==
    { <<>> } \cup { (DataKey :> v) : v \in {Undefined, Null} \cup { Str(t) : t \in Texts } }

\* ManifestFieldRenderer's value prop is the value looked up in the record.
InitField ==
    /\ field \in { Some(f) : f \in Fields }
    /\ manifestData \in DataRecords
    /\ fieldValue = getFieldValue(manifestData, DataKey)
    /\ sizing = None
    /\ textStyle = None
    /\ overflowStyle = None
    /\ presentational = None
    /\ htmlField = None
    /\ fieldPc = "idle"
    /\ ScaleIdle
    /\ BatchIdle
    /\ FitIdle
    /\ TemplateIdle
    /\ JobIdle
    /\ EditorIdle
    /\ PreviewIdle

\* ManifestFieldRenderer mounts: useState's initial sizing and the first
\* render.
MountFieldRenderer ==
    /\ fieldPc = "idle"
    /\ sizing' = Some(FixedDefaults)
    /\ textStyle' = Some(FieldRendererTextStyle(Val(field), FixedDefaults.fontSize))
    /\ fieldPc' = "mounted"
    /\ UNCHANGED <<field, manifestData, fieldValue, overflowStyle, presentational, htmlField>>
    /\ UNCHANGED <<scaleVars, batchVars, fitVars, templateVars, jobVars,
                 editorVars, previewVars>>

\* ManifestFieldRenderer's effect: the sizing is computed and set, and the
\* component renders again.
SizingEffect ==
    /\ fieldPc = "mounted"
    /\ LET f == Val(field)
           out == IF Len(fieldValue) = 0
                  THEN [result |-> FixedDefaults, cache |-> measurementCache]
                  ELSE calculateOptimalFontSize(measurementCache, fieldValue,
                           f.width, f.height, f.fontWeight, f.stretchHeight)
       IN  /\ sizing' = Some(out.result)
           /\ textStyle' = Some(FieldRendererTextStyle(f, out.result.fontSize))
           /\ measurementCache' = out.cache
    /\ fieldPc' = "sized"
    /\ UNCHANGED <<field, manifestData, fieldValue, overflowStyle, presentational, htmlField>>
    /\ UNCHANGED <<scaleVars, batchVars, fitArgs, fitResult, fitCalls, fitSearch, templateVars, jobVars,
                 editorVars, previewVars>>

\* PresentationalManifest renders the field: the value is looked up and the
\* sizing is computed inline.
RenderPresentational ==
    /\ field # None
    /\ overflowStyle = None
    /\ LET f == Val(field)
           textContent == getFieldValue(manifestData, DataKey)
           out == calculateOptimalFontSize(measurementCache, textContent,
                      f.width, f.height, f.fontWeight, f.stretchHeight)
       IN  /\ overflowStyle' = Some(PresentationalOverflowStyle(f))
           /\ presentational' = Some([textContent |-> textContent,
                                      sizing |-> out.result])
           /\ measurementCache' = out.cache
    /\ UNCHANGED <<field, manifestData, fieldValue, sizing, textStyle, htmlField, fieldPc>>
    /\ UNCHANGED <<scaleVars, batchVars, fitArgs, fitResult, fitCalls, fitSearch, templateVars, jobVars,
                 editorVars, previewVars>>

(***************************************************************************)
(* The field markup of the standalone HTML export (generateManifestHTML).  *)
(*                                                                         *)
(* The export builds the box's style as a string of declarations; in a     *)
(* style attribute the last declaration of a property is the one applied.  *)
(***************************************************************************)
Decl(property, value) == [property |-> property, value |-> value]

\* let overflowStyle = ''; ... overflowStyle += ...  (lines 115-135)
HtmlOverflowDeclarations(f) ==
    (IF f.overflow = "hidden" \/ f.overflow = "ellipsis"
     THEN <<Decl("overflow", "hidden")>>
              \o (IF f.overflow = "ellipsis"
                  THEN <<Decl("text-overflow", "ellipsis"),
                         Decl("white-space", "nowrap")>>
                  ELSE <<>>)
     ELSE <<>>)
    \o (IF HasMaxLines(f)
        THEN <<Decl("display", "-webkit-box"),
               Decl("-webkit-line-clamp", f.maxLines),
               Decl("-webkit-box-orient", "vertical"),
               Decl("overflow", "hidden")>>
        ELSE <<>>)
    \o (IF f.wordWrap
        THEN <<Decl("word-wrap", "break-word"),
               Decl("overflow-wrap", "break-word"),
               Decl("white-space", "normal")>>
        ELSE <<>>)
    \o (IF ~f.wordWrap /\ NotMaxLines(f)
        THEN <<Decl("white-space", "nowrap")>>
        ELSE <<>>)

\* The declarations appended after the sizing (lines 153-162).
HtmlStretchDeclarations(f) ==
    IF f.stretchHeight THEN <<Decl("overflow", "hidden")>>
    ELSE IF ~f.wordWrap /\ NotMaxLines(f) THEN <<Decl("overflow", "visible")>>
    ELSE <<>>

\* The value a style attribute gives a property: its last declaration, or
\* the given initial value when it has none.
Declared(decls, property, initial) ==
    LET at == { i \in 1..Len(decls) : decls[i].property = property }
    IN  IF at = {} THEN initial
        ELSE decls[CHOOSE i \in at : \A j \in at : j <= i].value

\* One field of fieldsHTML: the text, the sizing, the box's declarations and
\* the inner text element's white-space and transform.
HtmlFieldMarkup(cache, f, record) ==
    LET textContent == getFieldValue(record, DataKey)
        out == calculateOptimalFontSize(cache, textContent, f.width, f.height,
                                        f.fontWeight, f.stretchHeight)
    IN  [markup |->
            [textContent |-> textContent,
             sizing |-> out.result,
             boxStyle |-> <<Decl("display", "flex")>>
                              \o HtmlOverflowDeclarations(f)
                              \o HtmlStretchDeclarations(f),
             textWhiteSpace |-> "nowrap",
             transform |-> IF f.stretchHeight
                           THEN Some(<<out.result.scaleX, out.result.scaleY>>)
                           ELSE None],
         cache |-> out.cache]

\* generateManifestHTML builds the markup of the field.
RenderHtmlField ==
    /\ field # None
    /\ htmlField = None
    /\ LET out == HtmlFieldMarkup(measurementCache, Val(field), manifestData)
       IN  /\ htmlField' = Some(out.markup)
           /\ measurementCache' = out.cache
    /\ UNCHANGED <<field, manifestData, fieldValue, sizing, textStyle,
                   overflowStyle, presentational, fieldPc>>
    /\ UNCHANGED <<scaleVars, batchVars, fitArgs, fitResult, fitCalls, fitSearch,
                   templateVars, jobVars, editorVars, previewVars>>

NextFieldRender ==
    MountFieldRenderer \/ SizingEffect \/ RenderPresentational \/ RenderHtmlField

SpecField == InitField /\ [][NextFieldRender]_vars

FieldRendered == fieldPc # "idle"
PresentationalRendered == overflowStyle # None

\* How a rendered field behaves.  The text wraps unless white-space is
\* nowrap (not set, it is the initial value normal); it is truncated on one
\* line with an ellipsis under overflow hidden, text-overflow ellipsis and
\* white-space nowrap; it is clamped to the lines of an effective line clamp.
Wraps(style) == style.whiteSpace # "nowrap"
SingleLineEllipsis(style) ==
    style.overflow = "hidden" /\ style.textOverflow = "ellipsis" /\ ~Wraps(style)
LineClamp(style) ==
    IF style.display = "-webkit-box" /\ style.WebkitBoxOrient = "vertical"
    THEN style.WebkitLineClamp ELSE None
ClampedTo(style, lines) ==
    LineClamp(style) = lines /\ style.overflow = "hidden" /\ Wraps(style)

\* The field is clipped when its text element or its box hides overflow: in
\* ManifestFieldRenderer the box has only the class, in
\* PresentationalManifest the inline overflow, if set, overrides the class.
FieldRendererClipped ==
    \/ Val(textStyle).overflow = "hidden"
    \/ ContainerClassName(Val(field)) = "overflow-hidden"
PresentationalClipped ==
    IF Val(overflowStyle).overflow # ""
    THEN Val(overflowStyle).overflow = "hidden"
    ELSE ContainerClassName(Val(field)) = "overflow-hidden"

\* C17: in PresentationalManifest, the renderer of the output surfaces, a
\* field with maxLines > 0 is clamped to exactly maxLines wrapping lines and
\* is not a single-line no-wrap truncation, whatever its overflow setting.
C17_MaxLinesPrecedence ==
    (PresentationalRendered /\ HasMaxLines(Val(field))) =>
        /\ ClampedTo(Val(overflowStyle), Val(field).maxLines)
        /\ ~SingleLineEllipsis(Val(overflowStyle))

\* C18: in both renderers a field with overflow = ellipsis and no maxLines is
\* a single line truncated with an ellipsis and never wraps, whatever its
\* wordWrap flag.
C18_EllipsisSingleLine ==
    /\ (FieldRendered /\ Val(field).overflow = "ellipsis" /\ ~HasMaxLines(Val(field)))
           => (SingleLineEllipsis(Val(textStyle)) /\ LineClamp(Val(textStyle)) = None)
    /\ (PresentationalRendered /\ Val(field).overflow = "ellipsis"
            /\ ~HasMaxLines(Val(field)))
           => (SingleLineEllipsis(Val(overflowStyle))
               /\ LineClamp(Val(overflowStyle)) = None)

\* C19: in both renderers a field with overflow = hidden and no maxLines is
\* clipped, has no ellipsis (no text-overflow, no line clamp), and wraps if
\* and only if wordWrap is true.
C19_HiddenClips ==
    /\ (FieldRendered /\ Val(field).overflow = "hidden" /\ ~HasMaxLines(Val(field)))
           => /\ FieldRendererClipped
              /\ Val(textStyle).textOverflow = ""
              /\ LineClamp(Val(textStyle)) = None
              /\ Wraps(Val(textStyle)) <=> Val(field).wordWrap
    /\ (PresentationalRendered /\ Val(field).overflow = "hidden"
            /\ ~HasMaxLines(Val(field)))
           => /\ PresentationalClipped
              /\ Val(overflowStyle).textOverflow = ""
              /\ LineClamp(Val(overflowStyle)) = None
              /\ Wraps(Val(overflowStyle)) <=> Val(field).wordWrap

\* Both renderers have rendered a hidden-overflow field without line limit
\* that wraps, in a box that does not stretch.
C19_Witness ==
    /\ fieldPc = "sized"
    /\ PresentationalRendered
    /\ Val(field).overflow = "hidden"
    /\ Val(field).maxLines = None
    /\ Val(field).wordWrap
    /\ ~Val(field).stretchHeight
    /\ Wraps(Val(textStyle))
    /\ Wraps(Val(overflowStyle))

\* C20: in both renderers a field with overflow = visible and no maxLines is
\* not clipped, whatever stretchHeight and wordWrap are, and wraps if and
\* only if wordWrap is true.
C20_VisibleNeverClipped ==
    /\ (FieldRendered /\ Val(field).overflow = "visible" /\ ~HasMaxLines(Val(field)))
           => /\ ~FieldRendererClipped
              /\ Wraps(Val(textStyle)) <=> Val(field).wordWrap
    /\ (PresentationalRendered /\ Val(field).overflow = "visible"
            /\ ~HasMaxLines(Val(field)))
           => /\ ~PresentationalClipped
              /\ Wraps(Val(overflowStyle)) <=> Val(field).wordWrap

\* The record has no string under the field's dataKey.
NoDataValue ==
    DataKey \notin DOMAIN manifestData \/ manifestData[DataKey].kind # "string"

\* C21: the lookup of a field's dataKey never fails: when the key is absent
\* from the record, or holds null or undefined, the text is the empty string
\* and the field is fitted with the defaults {fontSize: 12, scaleX: 1,
\* scaleY: 1}; a string in the record is shown as it is.
C21_MissingDataIsEmpty ==
    PresentationalRendered =>
        /\ NoDataValue =>
               /\ Val(presentational).textContent = <<>>
               /\ Val(presentational).sizing = FixedDefaults
        /\ ~NoDataValue =>
               Val(presentational).textContent = manifestData[DataKey].str

\* Fields rendered from a record without the key, and from one holding null.
C21_Witness ==
    /\ PresentationalRendered
    /\ DataKey \notin DOMAIN manifestData
    /\ Val(presentational).sizing = FixedDefaults
    /\ Val(field).height < 12

\* C23: for every canvas the scale pair of the HTML export equals the scale
\* pair computeScaleForA4 returns for it in the document modes html and batch.
C23_HtmlExportScale ==
    (ScaleDone /\ htmlScale # None /\ targetMode \in {"html", "batch"})
        => Val(htmlScale) = Val(scaleResult)

-----------------------------------------------------------------------------
(***************************************************************************)
(* Templates handed to the scaling helpers as they are stored.             *)
(*                                                                         *)
(* A stored TemplateStructure may lack imageWidth or imageHeight: reading  *)
(* the property then gives undefined (None).  A factor is a JavaScript     *)
(* number: NaN or a rational.                                              *)
(***************************************************************************)
ScaleNaN == [nan |-> TRUE, r |-> RInt(0)]
ScaleNum(r) == [nan |-> FALSE, r |-> r]

\* a / b where b is a number or undefined: a / undefined is NaN.
JsDiv(a, b) ==
    IF a.nan \/ b = None THEN ScaleNaN ELSE ScaleNum(RDiv(a.r, RInt(Val(b))))

\* Math.min and Math.max return NaN when an argument is NaN.
JsMin(a, b) == IF a.nan \/ b.nan THEN ScaleNaN ELSE ScaleNum(MathMin(a.r, b.r))
JsMax(a, b) == IF a.nan \/ b.nan THEN ScaleNaN ELSE ScaleNum(MathMax(a.r, b.r))

\* computeBaseDimensions: the two properties are copied, whatever they are.
computeBaseDimensions(s) ==
    [kind |-> "returned", widthPx |-> s.imageWidth, heightPx |-> s.imageHeight]

\* computeScaleForA4 on dimensions that may be undefined: the same statements
\* as above, in JavaScript numbers.
computeScaleForA4OfDimensions(dims, options, maxUpscaleFactor) ==
    LET w == dims.widthPx
        h == dims.heightPx
        page == [x |-> JsDiv(ScaleNum(A4_USABLE_WIDTH), w),
                 y |-> JsDiv(ScaleNum(A4_USABLE_HEIGHT), h)]
        floor == ScaleNum(MinScale)
    IN  IF options.targetMode \in {"print", "batch", "html"}
        THEN [kind |-> "returned",
              scaleX |-> JsMax(JsMin(page.x, ScaleNum(maxUpscaleFactor)), floor),
              scaleY |-> JsMax(JsMin(page.y, ScaleNum(maxUpscaleFactor)), floor)]
        ELSE LET s0 == JsMin(page.x, page.y)
                 s1 == IF Truthy(options.maxScreenWidth)
                       THEN JsMin(s0, JsDiv(ScaleNum(RInt(Val(options.maxScreenWidth))), w))
                       ELSE s0
                 s2 == IF Truthy(options.maxScreenHeight)
                       THEN JsMin(s1, JsDiv(ScaleNum(RInt(Val(options.maxScreenHeight))), h))
                       ELSE s1
                 scale == JsMax(JsMin(s2, ScaleNum(RInt(1))), floor)
             IN  [kind |-> "returned", scaleX |-> scale, scaleY |-> scale]

\* The templates tried: each dimension missing, or one of two sizes.
StoredDimensions == {None, Some(188), Some(1000)}
Structures == [imageWidth : StoredDimensions, imageHeight : StoredDimensions]
TemplateScreenLimits == {None, Some(600)}
TemplateOptions ==
    [targetMode : TargetMode, maxScreenWidth : TemplateScreenLimits,
     maxScreenHeight : TemplateScreenLimits]

InitTemplate ==
    /\ structure \in { Some(s) : s \in Structures }
    /\ templateOptions \in { Some(o) : o \in TemplateOptions }
    /\ baseDimensions = None
    /\ templateScale = None
    /\ ScaleIdle
    /\ BatchIdle
    /\ FitIdle
    /\ FieldIdle
    /\ JobIdle
    /\ EditorIdle
    /\ PreviewIdle

\* const baseDimensions = computeBaseDimensions(structure)
ComputeBaseDimensions ==
    /\ baseDimensions = None
    /\ baseDimensions' = Some(computeBaseDimensions(Val(structure)))
    /\ UNCHANGED <<structure, templateOptions, templateScale>>
    /\ UNCHANGED <<scaleVars, batchVars, fitVars, fieldVars, jobVars,
                   editorVars, previewVars>>

\* computeScaleForA4({ baseWidthPx: widthPx, baseHeightPx: heightPx, ... })
ComputeTemplateScale ==
    /\ baseDimensions # None
    /\ templateScale = None
    /\ templateScale' = Some(computeScaleForA4OfDimensions(Val(baseDimensions),
                                 Val(templateOptions), DefaultMaxUpscaleFactor))
    /\ UNCHANGED <<structure, templateOptions, baseDimensions>>
    /\ UNCHANGED <<scaleVars, batchVars, fitVars, fieldVars, jobVars,
                   editorVars, previewVars>>

NextTemplate == ComputeBaseDimensions \/ ComputeTemplateScale

SpecTemplate == InitTemplate /\ [][NextTemplate]_vars

\* A template with no canvas dimensions at all.
NoCanvasDimensions ==
    /\ structure # None
    /\ Val(structure).imageWidth = None
    /\ Val(structure).imageHeight = None

\* C22: for a template with no canvas dimensions at all, computing the base
\* dimensions and the page scale signals an error to the caller instead of
\* returning dimensions and a scale result.
C22_InvalidTemplateSignalled ==
    NoCanvasDimensions =>
        /\ baseDimensions # None => Val(baseDimensions).kind = "error"
        /\ templateScale # None => Val(templateScale).kind = "error"

\* On templates that have both dimensions the helper agrees with the
\* calculator above.
TemplateScaleAgrees ==
    (templateScale # None /\ Val(structure).imageWidth # None
                          /\ Val(structure).imageHeight # None) =>
        LET o == Val(templateOptions)
            r == computeScaleForA4(Val(Val(structure).imageWidth),
                                   Val(Val(structure).imageHeight), o.targetMode,
                                   o.maxScreenWidth, o.maxScreenHeight,
                                   DefaultMaxUpscaleFactor)
        IN  /\ Val(templateScale).scaleX = ScaleNum(r.scaleX)
            /\ Val(templateScale).scaleY = ScaleNum(r.scaleY)

\* What the page scale of a template without dimensions is: NaN on both axes,
\* returned as an ordinary result.
InvalidTemplateScaleIsNaN ==
    (NoCanvasDimensions /\ templateScale # None) =>
        /\ Val(templateScale).kind = "returned"
        /\ Val(templateScale).scaleX.nan
        /\ Val(templateScale).scaleY.nan

\* The two renderings of a field, compared as a browser applies them.
\* What a browser applies to the field as PresentationalManifest renders it:
\* the inline style wins over the overflow-hidden / overflow-visible class,
\* and the text element, which sets no white-space, inherits the box's
\* (initial value normal).
PresentationalApplied ==
    LET f == Val(field)
        style == Val(overflowStyle)
        s == Val(presentational).sizing
    IN  [textContent |-> Val(presentational).textContent,
         fontSize |-> s.fontSize,
         transform |-> IF f.stretchHeight THEN Some(<<s.scaleX, s.scaleY>>) ELSE None,
         overflow |-> IF style.overflow # "" THEN style.overflow
                      ELSE IF f.stretchHeight THEN "hidden" ELSE "visible",
         whiteSpace |-> IF style.whiteSpace # "" THEN style.whiteSpace ELSE "normal",
         lineClamp |-> style.WebkitLineClamp]

\* What a browser applies to the field of the HTML export.
HtmlApplied ==
    LET h == Val(htmlField)
    IN  [textContent |-> h.textContent,
         fontSize |-> h.sizing.fontSize,
         transform |-> h.transform,
         overflow |-> Declared(h.boxStyle, "overflow", "visible"),
         whiteSpace |-> h.textWhiteSpace,
         lineClamp |-> Declared(h.boxStyle, "-webkit-line-clamp", None)]

BothRendered == overflowStyle # None /\ htmlField # None

\* C24: for every field configuration and value, the HTML export gives the
\* field the same text, fitted font size, stretch transform, clipping,
\* wrapping and line clamp as PresentationalManifest.
C24_HtmlExportSameField ==
    BothRendered => HtmlApplied = PresentationalApplied

\* The parts of the rendering on which the two always agree.
HtmlExportSameFit ==
    BothRendered =>
        /\ HtmlApplied.textContent = PresentationalApplied.textContent
        /\ HtmlApplied.fontSize = PresentationalApplied.fontSize
        /\ HtmlApplied.transform = PresentationalApplied.transform
        /\ HtmlApplied.lineClamp = PresentationalApplied.lineClamp

-----------------------------------------------------------------------------
\* The server's document and the component's, for the same batch.
ServerDone == Rendered /\ serverJob # None /\ serverDocument # None

\* C25: for the same batch the server's job totalPages, its document's total,
\* its groups (keys, items, page count per group) and its copy count per item
\* equal the component's: unit count x multiplier per item, 2 + groups + sum
\* of copies in total.
C25_ServerSameDocument ==
    ServerDone =>
        LET doc == Val(serverDocument)
        IN  /\ Val(serverJob).totalPages = totalPages
            /\ doc.totalPages = totalPages
            /\ doc.totalBls = totalBls
            /\ doc.totalManifests = totalManifests
            /\ Len(doc.groups) = Len(blGroups)
            /\ \A k \in 1..Len(doc.groups) :
                   LET sg == doc.groups[k]
                       cg == blGroups[k]
                   IN  /\ sg.blNo = cg.blNo
                       /\ sg.totalManifestsInBl = cg.totalManifests
                       /\ sg.totalPagesInBl = cg.totalPages
                       /\ Len(sg.items) = Len(cg.items)
                       /\ \A i \in 1..Len(sg.items) :
                              /\ sg.items[i].ref = cg.items[i].ref
                              /\ ServerCopies(sg.items[i].pltQty)
                                     = NMul(cg.items[i].pltQty, cg.items[i].copyCount)

\* What the two always share: the grouping, and the job's total being the
\* total of the server's own document.
ServerSameGrouping ==
    ServerDone =>
        LET doc == Val(serverDocument)
        IN  /\ Val(serverJob).totalPages = doc.totalPages
            /\ doc.totalBls = totalBls
            /\ doc.totalManifests = totalManifests
            /\ \A k \in 1..Len(doc.groups) :
                   /\ doc.groups[k].blNo = blGroups[k].blNo
                   /\ [i \in 1..Len(doc.groups[k].items) |-> doc.groups[k].items[i].ref]
                          = [i \in 1..Len(blGroups[k].items) |-> blGroups[k].items[i].ref]

-----------------------------------------------------------------------------
\* The places (group, position) at which the input item at position ref of
\* results is found in blGroups.
PlacesOf(ref) ==
    { <<g, i>> \in (1..Len(blGroups)) \X (1..MaxItems) :
        i <= Len(blGroups[g].items) /\ blGroups[g].items[i].ref = ref }

GroupOf(ref) == (CHOOSE p \in PlacesOf(ref) : TRUE)[1]

\* C30: grouping partitions the batch: every input item is in exactly one
\* group; two items are in the same group iff they have the same key (a
\* missing key is the key UNKNOWN); inside a group the items are in input
\* order; the groups are in ascending key order; and the groups' item counts
\* sum to the number of input items.
C30_GroupingPartitions ==
    Rendered =>
        /\ \A ref \in 1..Len(results) : Cardinality(PlacesOf(ref)) = 1
        /\ \A a, b \in 1..Len(results) :
               (GroupOf(a) = GroupOf(b)) <=> (ItemBlNo(results[a]) = ItemBlNo(results[b]))
        /\ \A g \in 1..Len(blGroups) :
               /\ blGroups[g].items # <<>>
               /\ \A i \in 1..Len(blGroups[g].items) :
                      /\ blGroups[g].items[i].ref \in 1..Len(results)
                      /\ blGroups[g].blNo = ItemBlNo(results[blGroups[g].items[i].ref])
                      /\ \A j \in 1..Len(blGroups[g].items) :
                             i < j => blGroups[g].items[i].ref < blGroups[g].items[j].ref
        /\ \A g, h \in 1..Len(blGroups) :
               g < h => LocaleLess(blGroups[g].blNo, blGroups[h].blNo)
        /\ SumGroupManifests(blGroups) = Len(results)

\* Three items with the keys B, missing, B: two groups, emitted as B then
\* UNKNOWN, the first holding the first and the third item.
C30_Witness ==
    /\ Rendered
    /\ Len(results) = 3
    /\ results[1].blNo = Some(<<"B">>)
    /\ results[2].blNo = None
    /\ results[3].blNo = Some(<<"B">>)
    /\ Len(blGroups) = 2
    /\ blGroups[1].blNo = <<"B">>
    /\ blGroups[2].blNo = UNKNOWN
    /\ GroupOf(1) = 1 /\ GroupOf(3) = 1 /\ GroupOf(2) = 2

-----------------------------------------------------------------------------
(***************************************************************************)
(* PDF service: the job of a batch print.                                  *)
(*                                                                         *)
(* createJob adds the job to the jobs Map and arms its expiry timer;       *)
(* generatePDF(id) runs as a chain of awaits; cleanupJob(id) runs when the *)
(* timer fires and awaits the unlink of the PDF.  Every await is a point   *)
(* at which the other callbacks and the route handlers may run.  A job's   *)
(* PDF file is named after its id.                                         *)
(***************************************************************************)
MaxJobs == 2
JobIds == 1..MaxJobs

\* The batches posted: an empty one, and one item of two pallets.
JobBatches ==
    { <<>>,
      <<[blNo |-> Some(<<"A">>), itemNo |-> Some(<<"1">>),
         plt |-> Some(<<"2">>), maesu |-> None]>> }

\* The job createJob stores: no pdfPath, no error yet.
NewJob(batch) ==
    [status |-> createJob(batch).status,
     totalPages |-> createJob(batch).totalPages,
     processedPages |-> Num(createJob(batch).processedPages),
     pdfPath |-> None,
     error |-> None]

\* updateJob(id, updates): Object.assign on the job, if the Map has it.
updateJob(map, id, updates) ==
    IF map[id] = None THEN map
    ELSE [map EXCEPT ![id] =
             Some([k \in DOMAIN Val(map[id]) |->
                     IF k \in DOMAIN updates THEN updates[k] ELSE Val(map[id])[k]])]

\* { status: 'completed', pdfPath, processedPages: job.totalPages, ... }
CompletedUpdates(job, id) ==
    [status |-> "completed", pdfPath |-> Some(id),
     processedPages |-> job.totalPages]

\* A download route that sends whatever file there is.
DownloadCodeUnchecked(job, files, id) ==
    IF job = None THEN 404
    ELSE IF id \in files THEN 200 ELSE 500

\* GET /api/batch-print/jobs/:id/download: 404 for an unknown job, 400 for a
\* job without a finished PDF, else res.download (500 from its callback when
\* the file cannot be read).
DownloadCode(job, files, id) ==
    IF job = None THEN 404
    ELSE IF Val(job).status # "completed" \/ Val(job).pdfPath = None THEN 400
    ELSE IF Val(Val(job).pdfPath) \in files THEN 200 ELSE 500

JobSeen(job) == IF job = None THEN "none" ELSE Val(job).status

InitJob ==
    /\ jobs = [id \in JobIds |-> None]
    /\ generation = [id \in JobIds |-> "none"]
    /\ expiry = [id \in JobIds |-> "none"]
    /\ pdfDir = {}
    /\ response = None
    /\ ScaleIdle
    /\ BatchIdle
    /\ FitIdle
    /\ FieldIdle
    /\ TemplateIdle
    /\ EditorIdle
    /\ PreviewIdle

JobOthersUnchanged ==
    UNCHANGED <<scaleVars, batchVars, fitVars, fieldVars, templateVars,
                editorVars, previewVars>>

\* createJob(manifestData): a fresh id, the job in the Map, the timer armed.
CreateJob ==
    \E id \in JobIds, batch \in JobBatches :
        /\ generation[id] = "none"
        /\ \A other \in JobIds : other < id => generation[other] # "none"
        /\ jobs' = [jobs EXCEPT ![id] = Some(NewJob(batch))]
        /\ generation' = [generation EXCEPT ![id] = "created"]
        /\ expiry' = [expiry EXCEPT ![id] = "armed"]
        /\ UNCHANGED <<pdfDir, response>>
        /\ JobOthersUnchanged

\* generatePDF(job.id), called by the route in the tick of createJob, up to
\* its first await: the job is found and set to processing.
GeneratePDFStart ==
    \E id \in JobIds :
        /\ generation[id] = "created"
        /\ jobs[id] # None
        /\ jobs' = updateJob(jobs, id, [status |-> "processing"])
        /\ generation' = [generation EXCEPT ![id] = "processing"]
        /\ UNCHANGED <<expiry, pdfDir, response>>
        /\ JobOthersUnchanged

\* getBrowser, newPage, setContent, mkdir and page.pdf succeed: the file is
\* written.
WritePdf ==
    \E id \in JobIds :
        /\ generation[id] = "processing"
        /\ pdfDir' = pdfDir \cup {id}
        /\ generation' = [generation EXCEPT ![id] = "written"]
        /\ UNCHANGED <<jobs, expiry, response>>
        /\ JobOthersUnchanged

\* page.close succeeds and the job is updated to completed.
CompleteJob ==
    \E id \in JobIds :
        /\ generation[id] = "written"
        /\ jobs' = IF jobs[id] = None THEN jobs
                   ELSE updateJob(jobs, id, CompletedUpdates(Val(jobs[id]), id))
        /\ generation' = [generation EXCEPT ![id] = "completed"]
        /\ UNCHANGED <<expiry, pdfDir, response>>
        /\ JobOthersUnchanged

\* One of the awaited calls rejects (before the file is written, or
\* page.close after it): the catch block sets the job to failed.
GenerationFails ==
    \E id \in JobIds :
        /\ generation[id] \in {"processing", "written"}
        /\ jobs' = updateJob(jobs, id, [status |-> "failed", error |-> Some("message")])
        /\ generation' = [generation EXCEPT ![id] = "failed"]
        /\ UNCHANGED <<expiry, pdfDir, response>>
        /\ JobOthersUnchanged

\* The expiry timer fires, JOB_EXPIRY_MS after createJob (so not within the
\* tick that created the job): cleanupJob up to its await, or to its end
\* when the job has no pdfPath.
ExpiryFires ==
    \E id \in JobIds :
        /\ expiry[id] = "armed"
        /\ generation[id] # "created"
        /\ IF jobs[id] # None /\ Val(jobs[id]).pdfPath # None
           THEN /\ expiry' = [expiry EXCEPT ![id] = "unlinking"]
                /\ jobs' = jobs
           ELSE /\ expiry' = [expiry EXCEPT ![id] = "done"]
                /\ jobs' = [jobs EXCEPT ![id] = None]
        /\ UNCHANGED <<generation, pdfDir, response>>
        /\ JobOthersUnchanged

\* fs.unlink(job.pdfPath) takes effect.
Unlink ==
    \E id \in JobIds :
        /\ expiry[id] = "unlinking"
        /\ pdfDir' = pdfDir \ {Val(Val(jobs[id]).pdfPath)}
        /\ expiry' = [expiry EXCEPT ![id] = "unlinked"]
        /\ UNCHANGED <<jobs, generation, response>>
        /\ JobOthersUnchanged

\* cleanupJob resumes after the await: jobs.delete(id).
CleanupFinish ==
    \E id \in JobIds :
        /\ expiry[id] = "unlinked"
        /\ jobs' = [jobs EXCEPT ![id] = None]
        /\ expiry' = [expiry EXCEPT ![id] = "done"]
        /\ UNCHANGED <<generation, pdfDir, response>>
        /\ JobOthersUnchanged

\* GET /api/batch-print/jobs/:id
GetJobStatus ==
    \E id \in JobIds :
        /\ response' = Some([route |-> "status", id |-> id,
                             code |-> IF jobs[id] = None THEN 404 ELSE 200,
                             seen |-> JobSeen(jobs[id])])
        /\ UNCHANGED <<jobs, generation, expiry, pdfDir>>
        /\ JobOthersUnchanged

\* GET /api/batch-print/jobs/:id/download
DownloadPdf ==
    \E id \in JobIds :
        /\ response' = Some([route |-> "download", id |-> id,
                             code |-> DownloadCode(jobs[id], pdfDir, id),
                             seen |-> JobSeen(jobs[id])])
        /\ UNCHANGED <<jobs, generation, expiry, pdfDir>>
        /\ JobOthersUnchanged

NextJob ==
    \/ CreateJob \/ GeneratePDFStart \/ WritePdf \/ CompleteJob
    \/ GenerationFails \/ ExpiryFires \/ Unlink \/ CleanupFinish
    \/ GetJobStatus \/ DownloadPdf

SpecJob == InitJob /\ [][NextJob]_vars

\* The status changes a job may make.
StatusMoves ==
    { <<"pending", "processing">>, <<"processing", "completed">>,
      <<"processing", "failed">> }

JobStatusStep ==
    \A id \in JobIds :
        /\ (jobs[id] = None /\ jobs'[id] # None) => Val(jobs'[id]).status = "pending"
        /\ (jobs[id] # None /\ jobs'[id] # None
              /\ Val(jobs'[id]).status # Val(jobs[id]).status)
               => <<Val(jobs[id]).status, Val(jobs'[id]).status>> \in StatusMoves

CompletedJobsHavePdf ==
    \A id \in JobIds :
        (jobs[id] # None /\ Val(jobs[id]).status = "completed") =>
            /\ Val(jobs[id]).pdfPath # None
            /\ Val(jobs[id]).processedPages = Val(jobs[id]).totalPages

OnlyCompletedDownloads ==
    (response # None /\ Val(response).route = "download") =>
        /\ Val(response).seen = "none" => Val(response).code = 404
        /\ Val(response).seen \in {"pending", "processing", "failed"}
               => Val(response).code = 400
        /\ Val(response).code = 200 => Val(response).seen = "completed"

\* C26: a job's status only moves pending -> processing -> completed or
\* pending -> processing -> failed (completed and failed are terminal); a
\* completed job always has its pdfPath and processedPages = totalPages; and
\* a download of a job that is not completed is answered 400, of an unknown
\* job 404.
C26_JobLifecycle ==
    /\ [][JobStatusStep]_vars
    /\ [](CompletedJobsHavePdf /\ OnlyCompletedDownloads)

\* A job of 7 pages has completed and a download of it while it was still
\* being generated, its file already written, was refused.
C26_Witness ==
    /\ jobs[1] # None
    /\ Val(jobs[1]).status = "completed"
    /\ Val(jobs[1]).processedPages = Num(7)
    /\ 1 \in pdfDir
    /\ response = Some([route |-> "download", id |-> 1, code |-> 400,
                        seen |-> "processing"])

\* C27: once a job's expiry has run to its end and its generation has
\* finished, neither the job nor a PDF file of it remains, whatever the
\* order in which the steps of the two ran.
C27_NoOrphanedPdf ==
    \A id \in JobIds :
        (expiry[id] = "done" /\ generation[id] \in {"completed", "failed"}) =>
            /\ jobs[id] = None
            /\ id \notin pdfDir

\* When the expiry fires only after the generation has completed, the file
\* is removed with the job.
CleanupAfterCompletion ==
    [][\A id \in JobIds :
          (expiry[id] = "armed" /\ expiry'[id] # "armed"
              /\ generation[id] = "completed")
              => expiry'[id] = "unlinking"]_vars

-----------------------------------------------------------------------------
(***************************************************************************)
(* Template editor: dragging and resizing fields on the canvas.            *)
(*                                                                         *)
(* editor holds the component's state: imageSize, fields, selectedFieldId, *)
(* isDragging, isResizing, resizeHandle, dragStart and resizeStart, and    *)
(* the number of mouse events handled.  A mouse position is e.clientX -    *)
(* rect.left, e.clientY - rect.top.  Lengths are whole pixels.             *)
(***************************************************************************)
IntMin(a, b) == IF a <= b THEN a ELSE b
IntMax(a, b) == IF a <= b THEN b ELSE a

\* handle.includes(letter) on the handle names n, e, s, w, ne, nw, se, sw.
ResizeHandles == {"n", "e", "s", "w", "ne", "nw", "se", "sw"}
HandleIncludes(handle, letter) ==
    CASE letter = "n" -> handle \in {"n", "ne", "nw"}
      [] letter = "s" -> handle \in {"s", "se", "sw"}
      [] letter = "e" -> handle \in {"e", "ne", "se"}
      [] letter = "w" -> handle \in {"w", "nw", "sw"}

\* fields.find(f => f.id === id): the position of the field, 0 if none.
FieldIndex(fields, id) ==
    IF \E i \in 1..Len(fields) : fields[i].id = id
    THEN CHOOSE i \in 1..Len(fields) :
             fields[i].id = id /\ \A j \in 1..(i - 1) : fields[j].id # id
    ELSE 0

\* handleUpdateField: fields.map(f => f.id === fieldId ? {...f, ...updates} : f)
handleUpdateField(fields, fieldId, updates) ==
    [i \in 1..Len(fields) |->
        IF fields[i].id = fieldId
        THEN [k \in DOMAIN fields[i] |->
                 IF k \in DOMAIN updates THEN updates[k] ELSE fields[i][k]]
        ELSE fields[i]]

\* A resize without the image bounds check of lines 377-381.
ResizeGeometryUnbounded(start, handle, mouse, imageSize) ==
    LET deltaX == mouse.x - start.mouseX
        deltaY == mouse.y - start.mouseY
        w == IF HandleIncludes(handle, "w") THEN IntMax(20, start.width - deltaX)
             ELSE IF HandleIncludes(handle, "e") THEN IntMax(20, start.width + deltaX)
             ELSE start.width
        h == IF HandleIncludes(handle, "n") THEN IntMax(10, start.height - deltaY)
             ELSE IF HandleIncludes(handle, "s") THEN IntMax(10, start.height + deltaY)
             ELSE start.height
    IN  [x |-> IF HandleIncludes(handle, "w") THEN start.fieldX + (start.width - w)
               ELSE start.fieldX,
         y |-> IF HandleIncludes(handle, "n") THEN start.fieldY + (start.height - h)
               ELSE start.fieldY,
         width |-> w, height |-> h]

\* handleMouseMove, resize branch: the new geometry of the selected field.
ResizeGeometry(start, handle, mouse, imageSize) ==
    LET deltaX == mouse.x - start.mouseX
        deltaY == mouse.y - start.mouseY
        w0 == IF HandleIncludes(handle, "w") THEN IntMax(20, start.width - deltaX)
              ELSE IF HandleIncludes(handle, "e") THEN IntMax(20, start.width + deltaX)
              ELSE start.width
        h0 == IF HandleIncludes(handle, "n") THEN IntMax(10, start.height - deltaY)
              ELSE IF HandleIncludes(handle, "s") THEN IntMax(10, start.height + deltaY)
              ELSE start.height
        x0 == IF HandleIncludes(handle, "w") THEN start.fieldX + (start.width - w0)
              ELSE start.fieldX
        y0 == IF HandleIncludes(handle, "n") THEN start.fieldY + (start.height - h0)
              ELSE start.fieldY
        newX == IntMax(0, IntMin(x0, imageSize.width - w0))
        newY == IntMax(0, IntMin(y0, imageSize.height - h0))
    IN  [x |-> newX, y |-> newY,
         width |-> IntMin(w0, imageSize.width - newX),
         height |-> IntMin(h0, imageSize.height - newY)]

\* handleMouseMove, drag branch: the new position of the selected field.
DragPosition(f, offset, mouse, imageSize) ==
    [x |-> IntMax(0, IntMin(mouse.x - offset.x, imageSize.width - f.width)),
     y |-> IntMax(0, IntMin(mouse.y - offset.y, imageSize.height - f.height))]

\* The canvases and field layouts edited: the smallest canvas with one field
\* filling it and a 60 x 30 canvas with two fields; mouse positions on a
\* grid that reaches beyond the canvas.
MaxEditorEvents == 4
EditorField(id, x, y, width, height) ==
    [id |-> id, x |-> x, y |-> y, width |-> width, height |-> height]
EditorLayouts ==
    { [imageSize |-> [width |-> 20, height |-> 10],
       fields |-> <<EditorField("a", 0, 0, 20, 10)>>],
      [imageSize |-> [width |-> 60, height |-> 30],
       fields |-> <<EditorField("a", 0, 0, 20, 10), EditorField("b", 30, 10, 30, 20)>>] }
MousePositions == [x : {-20, 40, 90}, y : {-10, 50}]

InitEditor ==
    /\ editor \in
         { Some([imageSize |-> l.imageSize, fields |-> l.fields,
                 selectedFieldId |-> None, isDragging |-> FALSE,
                 isResizing |-> FALSE, resizeHandle |-> None,
                 dragStart |-> [x |-> 0, y |-> 0],
                 resizeStart |-> [mouseX |-> 0, mouseY |-> 0, fieldX |-> 0,
                                  fieldY |-> 0, width |-> 0, height |-> 0],
                 events |-> 0]) : l \in EditorLayouts }
    /\ ScaleIdle
    /\ BatchIdle
    /\ FitIdle
    /\ FieldIdle
    /\ TemplateIdle
    /\ JobIdle
    /\ PreviewIdle

EditorOthersUnchanged ==
    UNCHANGED <<scaleVars, batchVars, fitVars, fieldVars, templateVars,
                jobVars, previewVars>>

EditorEvent(next) ==
    /\ Val(editor).events < MaxEditorEvents
    /\ editor' = Some([next EXCEPT !.events = @ + 1])
    /\ EditorOthersUnchanged

\* handleMouseDown on a field.
EditorMouseDown ==
    \E i \in 1..Len(Val(editor).fields), mouse \in MousePositions :
        LET e == Val(editor)
            f == e.fields[FieldIndex(e.fields, e.fields[i].id)]
        IN  EditorEvent([e EXCEPT !.isDragging = TRUE,
                                  !.selectedFieldId = Some(e.fields[i].id),
                                  !.dragStart = [x |-> mouse.x - f.x,
                                                 y |-> mouse.y - f.y]])

\* handleResizeStart on one of the eight handles, which only the selected
\* field shows.
EditorResizeStart ==
    \E i \in 1..Len(Val(editor).fields), handle \in ResizeHandles,
       mouse \in MousePositions :
        LET e == Val(editor)
            f == e.fields[FieldIndex(e.fields, e.fields[i].id)]
        IN  /\ e.selectedFieldId = Some(e.fields[i].id)
            /\ EditorEvent([e EXCEPT !.isResizing = TRUE,
                                     !.resizeHandle = Some(handle),
                                     !.selectedFieldId = Some(e.fields[i].id),
                                     !.resizeStart =
                                         [mouseX |-> mouse.x, mouseY |-> mouse.y,
                                          fieldX |-> f.x, fieldY |-> f.y,
                                          width |-> f.width, height |-> f.height]])

\* handleMouseMove on the canvas.
EditorMouseMove ==
    \E mouse \in MousePositions :
        LET e == Val(editor)
            at == IF e.selectedFieldId = None THEN 0
                  ELSE FieldIndex(e.fields, Val(e.selectedFieldId))
        IN  IF at = 0 THEN EditorEvent(e)
            ELSE IF e.isResizing /\ e.resizeHandle # None
            THEN EditorEvent([e EXCEPT !.fields =
                     handleUpdateField(e.fields, Val(e.selectedFieldId),
                         ResizeGeometry(e.resizeStart, Val(e.resizeHandle),
                                        mouse, e.imageSize))])
            ELSE IF e.isDragging
            THEN EditorEvent([e EXCEPT !.fields =
                     handleUpdateField(e.fields, Val(e.selectedFieldId),
                         DragPosition(e.fields[at], e.dragStart, mouse,
                                      e.imageSize))])
            ELSE EditorEvent(e)

\* handleMouseUp (also the canvas's onMouseLeave).
EditorMouseUp ==
    /\ editor # None
    /\ EditorEvent([Val(editor) EXCEPT !.isDragging = FALSE, !.isResizing = FALSE,
                                       !.resizeHandle = None])

NextEditor ==
    EditorMouseDown \/ EditorResizeStart \/ EditorMouseMove \/ EditorMouseUp

SpecEditor == InitEditor /\ [][NextEditor]_vars

\* A field lies inside the canvas and has at least the minimum size.
InsideCanvas(f, imageSize, minWidth, minHeight) ==
    /\ 0 <= f.x
    /\ 0 <= f.y
    /\ f.x + f.width <= imageSize.width
    /\ f.y + f.height <= imageSize.height
    /\ f.width >= minWidth
    /\ f.height >= minHeight

EditorFieldsInside ==
    editor # None =>
        \A i \in 1..Len(Val(editor).fields) :
            InsideCanvas(Val(editor).fields[i], Val(editor).imageSize, 20, 10)

\* A step changes the geometry of the selected field only, and keeps the
\* identity and number of the fields.
EditorOnlySelectedChanges ==
    (editor # None /\ editor' # None) =>
        /\ Len(Val(editor').fields) = Len(Val(editor).fields)
        /\ \A i \in 1..Len(Val(editor).fields) :
               /\ Val(editor').fields[i].id = Val(editor).fields[i].id
               /\ Val(editor').fields[i] # Val(editor).fields[i]
                      => Val(editor).selectedFieldId = Some(Val(editor).fields[i].id)

\* C28: in the template editor, on a canvas of at least 20 x 10 with fields
\* that start inside it at no less than the minimum size, after any sequence
\* of mouse-down, resize-start, mouse-move and mouse-up events every field
\* has 0 <= x, 0 <= y, x + width <= imageWidth, y + height <= imageHeight,
\* width >= 20 and height >= 10, and only the selected field's geometry has
\* changed.
C28_EditorFieldsStayInside ==
    /\ []EditorFieldsInside
    /\ [][EditorOnlySelectedChanges]_vars

\* Field b of the two-field canvas has been resized by its west handle from
\* far outside the canvas: it now spans the whole width, field a untouched.
C28_Witness ==
    /\ editor # None
    /\ Len(Val(editor).fields) = 2
    /\ Val(editor).isResizing
    /\ Val(editor).resizeHandle = Some("w")
    /\ Val(editor).fields[2] = EditorField("b", 0, 10, 60, 20)
    /\ Val(editor).fields[1] = EditorField("a", 0, 0, 20, 10)

-----------------------------------------------------------------------------
(***************************************************************************)
(* Manifest preview, edit mode: dragging and resizing the edited fields.   *)
(*                                                                         *)
(* preview holds the component's props and state: structure (imageWidth,   *)
(* imageHeight and the template's stored fields), the container's width    *)
(* and height on screen, editedFields, selectedFieldId, isEditMode,        *)
(* isDragging, isResizing, resizeHandle, dragStart, the last event handled *)
(* and the number of events.  A mouse position is e.clientX, e.clientY.    *)
(***************************************************************************)
\* handleGlobalMouseMove, resize mode: the switch over the handle, the
\* minimum size and the image bounds check; dx, dy are the scaled deltas.
PreviewResize(f, handle, dx, dy, imageWidth, imageHeight) ==
    LET x0 == IF HandleIncludes(handle, "w") THEN f.x + dx ELSE f.x
        y0 == IF HandleIncludes(handle, "n") THEN f.y + dy ELSE f.y
        w0 == IF HandleIncludes(handle, "w") THEN f.width - dx
              ELSE IF HandleIncludes(handle, "e") THEN f.width + dx
              ELSE f.width
        h0 == IF HandleIncludes(handle, "n") THEN f.height - dy
              ELSE IF HandleIncludes(handle, "s") THEN f.height + dy
              ELSE f.height
        minSize == 20
        newWidth == IF w0 < minSize THEN minSize ELSE w0
        x1 == IF w0 < minSize /\ HandleIncludes(handle, "w")
              THEN f.x + f.width - minSize ELSE x0
        newHeight == IF h0 < minSize THEN minSize ELSE h0
        y1 == IF h0 < minSize /\ HandleIncludes(handle, "n")
              THEN f.y + f.height - minSize ELSE y0
    IN  [x |-> IntMax(0, IntMin(imageWidth - newWidth, x1)),
         y |-> IntMax(0, IntMin(imageHeight - newHeight, y1)),
         width |-> newWidth, height |-> newHeight]

\* handleGlobalMouseMove, drag mode.
PreviewDrag(f, dx, dy, imageWidth, imageHeight) ==
    [x |-> IntMax(0, IntMin(imageWidth - f.width, f.x + dx)),
     y |-> IntMax(0, IntMin(imageHeight - f.height, f.y + dy))]

\* prev.map(field => field.id === selectedFieldId ? {...field, ...} : field)
PreviewUpdate(fields, fieldId, updates) ==
    [i \in 1..Len(fields) |->
        IF fields[i].id = fieldId
        THEN [k \in DOMAIN fields[i] |->
                 IF k \in DOMAIN updates THEN updates[k] ELSE fields[i][k]]
        ELSE fields[i]]

\* The template previewed: a 60 x 40 image with two fields, shown at full
\* size or at half size (so that deltas scale by 1 or by 2).
MaxPreviewEvents == 5
PreviewStructure ==
    [imageWidth |-> 60, imageHeight |-> 40,
     fields |-> <<EditorField("a", 0, 0, 20, 20), EditorField("b", 30, 10, 30, 20)>>]
PreviewContainers == { [width |-> 60, height |-> 40], [width |-> 30, height |-> 20] }
PreviewMousePositions == [x : {0, 20, 50}, y : {0, 30}]

InitPreview ==
    /\ preview \in
         { Some([structure |-> PreviewStructure, containerRect |-> c,
                 isEditMode |-> FALSE, editedFields |-> PreviewStructure.fields,
                 selectedFieldId |-> None, isDragging |-> FALSE,
                 dragStart |-> [x |-> 0, y |-> 0], isResizing |-> FALSE,
                 resizeHandle |-> None, lastEvent |-> "mount", events |-> 0])
             : c \in PreviewContainers }
    /\ ScaleIdle
    /\ BatchIdle
    /\ FitIdle
    /\ FieldIdle
    /\ TemplateIdle
    /\ JobIdle
    /\ EditorIdle

PreviewOthersUnchanged ==
    UNCHANGED <<scaleVars, batchVars, fitVars, fieldVars, templateVars,
                jobVars, editorVars>>

PreviewEvent(next, event) ==
    /\ Val(preview).events < MaxPreviewEvents
    /\ preview' = Some([next EXCEPT !.events = @ + 1, !.lastEvent = event])
    /\ PreviewOthersUnchanged

\* The window listeners exist while isEditMode && (isDragging || isResizing).
PreviewListening ==
    /\ preview # None
    /\ Val(preview).isEditMode
    /\ Val(preview).isDragging \/ Val(preview).isResizing

\* handleEditToggle: entering edit mode, or cancelling it.
PreviewEditToggle ==
    /\ preview # None
    /\ LET p == Val(preview)
       IN  IF p.isEditMode
           THEN PreviewEvent([p EXCEPT !.editedFields = p.structure.fields,
                                       !.selectedFieldId = None,
                                       !.isEditMode = FALSE], "cancel")
           ELSE PreviewEvent([p EXCEPT !.isEditMode = TRUE], "edit")

\* handleFieldMouseDown
PreviewFieldMouseDown ==
    \E i \in 1..Len(Val(preview).editedFields), mouse \in PreviewMousePositions :
        LET p == Val(preview)
        IN  /\ p.isEditMode
            /\ PreviewEvent([p EXCEPT !.selectedFieldId = Some(p.editedFields[i].id),
                                      !.isDragging = TRUE,
                                      !.dragStart = mouse], "fieldMouseDown")

\* handleResizeMouseDown on a handle of the selected field.
PreviewResizeMouseDown ==
    \E i \in 1..Len(Val(preview).editedFields), handle \in ResizeHandles,
       mouse \in PreviewMousePositions :
        LET p == Val(preview)
        IN  /\ p.isEditMode
            /\ p.selectedFieldId = Some(p.editedFields[i].id)
            /\ PreviewEvent([p EXCEPT !.selectedFieldId = Some(p.editedFields[i].id),
                                      !.isResizing = TRUE,
                                      !.resizeHandle = Some(handle),
                                      !.dragStart = mouse], "resizeMouseDown")

\* handleGlobalMouseMove
PreviewMouseMove ==
    \E mouse \in PreviewMousePositions :
        /\ PreviewListening
        /\ LET p == Val(preview)
               deltaX == mouse.x - p.dragStart.x
               deltaY == mouse.y - p.dragStart.y
               dx == (deltaX * p.structure.imageWidth) \div p.containerRect.width
               dy == (deltaY * p.structure.imageHeight) \div p.containerRect.height
               at == IF p.selectedFieldId = None THEN 0
                     ELSE FieldIndex(p.editedFields, Val(p.selectedFieldId))
           IN  IF p.selectedFieldId = None \/ (Abs(deltaX) < 1 /\ Abs(deltaY) < 1)
               THEN PreviewEvent(p, "mouseMove")
               ELSE IF p.isDragging /\ ~p.isResizing
               THEN PreviewEvent(
                        [p EXCEPT !.editedFields =
                             IF at = 0 THEN @
                             ELSE PreviewUpdate(@, Val(p.selectedFieldId),
                                      PreviewDrag(@[at], dx, dy, p.structure.imageWidth,
                                                  p.structure.imageHeight)),
                                  !.dragStart = mouse], "mouseMove")
               ELSE IF p.isResizing /\ p.resizeHandle # None
               THEN PreviewEvent(
                        [p EXCEPT !.editedFields =
                             IF at = 0 THEN @
                             ELSE PreviewUpdate(@, Val(p.selectedFieldId),
                                      PreviewResize(@[at], Val(p.resizeHandle), dx, dy,
                                                    p.structure.imageWidth,
                                                    p.structure.imageHeight)),
                                  !.dragStart = mouse], "mouseMove")
               ELSE PreviewEvent(p, "mouseMove")

\* handleGlobalMouseUp
PreviewMouseUp ==
    /\ PreviewListening
    /\ PreviewEvent([Val(preview) EXCEPT !.isDragging = FALSE,
                                         !.isResizing = FALSE,
                                         !.resizeHandle = None], "mouseUp")

NextPreview ==
    \/ PreviewEditToggle \/ PreviewFieldMouseDown \/ PreviewResizeMouseDown
    \/ PreviewMouseMove \/ PreviewMouseUp

SpecPreview == InitPreview /\ [][NextPreview]_vars

PreviewFieldsInside ==
    \A i \in 1..Len(Val(preview).editedFields) :
        InsideCanvas(Val(preview).editedFields[i],
                     [width |-> Val(preview).structure.imageWidth,
                      height |-> Val(preview).structure.imageHeight], 20, 20)

PreviewMouseUpEnds ==
    Val(preview).lastEvent = "mouseUp" =>
        ~Val(preview).isDragging /\ ~Val(preview).isResizing

PreviewCancelRestores ==
    Val(preview).lastEvent = "cancel" =>
        Val(preview).editedFields = Val(preview).structure.fields

\* C29: in the preview's edit mode, after any sequence of drag and resize
\* mouse events every edited field has 0 <= x, 0 <= y, x + width <=
\* imageWidth, y + height <= imageHeight, width >= 20 and height >= 20; a
\* mouse-up ends dragging and resizing; and cancelling edit mode restores the
\* template's stored fields.
C29_PreviewFieldsStayInside ==
    preview # None =>
        /\ PreviewFieldsInside
        /\ PreviewMouseUpEnds
        /\ PreviewCancelRestores

\* What holds of the preview: position and minimum size, mouse-up and
\* cancel; the far edges are not kept inside the image.
PreviewWeakerBounds ==
    preview # None =>
        /\ \A i \in 1..Len(Val(preview).editedFields) :
               LET f == Val(preview).editedFields[i]
               IN  /\ 0 <= f.x /\ 0 <= f.y
                   /\ f.width >= 20 /\ f.height >= 20
        /\ PreviewMouseUpEnds
        /\ PreviewCancelRestores

\* The sequence edit, mouse-down on field a, mouse-up, mouse-down on its
\* south handle, mouse-move 30 px down in the half-size container: field a
\* is 80 high in an image 40 high.
PreviewFieldOutgrowsImage ==
    /\ preview # None
    /\ Val(preview).events = 5
    /\ Val(preview).lastEvent = "mouseMove"
    /\ Val(preview).resizeHandle = Some("s")
    /\ ~Val(preview).isDragging
    /\ Val(preview).editedFields[1] = EditorField("a", 0, 0, 20, 80)

=============================================================================
